---- MODULE Spec2Model ----
(***************************************************************************)
(* Pipeline lifecycle and generation orchestration of TensorStack.Python.  *)
(*                                                                         *)
(* The orchestrator state is the module-level state of a pipeline script   *)
(* (Pipelines/StableDiffusionXLPipeline.py is the one followed line by     *)
(* line: it has load, reload, unload, generate, generateCancel,            *)
(* getStepLatent, a prompt cache and a control-net cache).  The            *)
(* configuration is taken with the fields the script reads from it         *)
(* (config.control_net_path, config.lora_adapters, ...).                   *)
(*                                                                         *)
(* Thread 1 runs load / reload / unload / generate, thread 2 only sets the *)
(* cancellation Event.  generate is split at the points where the Event is *)
(* read or written, so that every interleaving with generateCancel is a    *)
(* behaviour of the model.                                                 *)
(***************************************************************************)
EXTENDS Integers, Sequences, FiniteSets, TLC

\* ---------------------------------------------------------------- bounds
MaxSteps == 2       \* denoising steps of a generate call
MaxCalls == 2       \* generate calls in a behaviour of Spec
MaxLoads == 1       \* load / reload calls in a behaviour of Spec
MaxCacheCalls == 3  \* generate calls in a behaviour of SpecCache
MaxCacheLoads == 2  \* load / reload calls in a behaviour of SpecCache
MaxBuildLoads == 2  \* load / reload calls in a behaviour of SpecBuild
MaxAdapters == 2    \* adapters of a configuration that can fail to attach
MaxControlNetLoads == 3   \* load / reload calls in a behaviour of SpecControlNet

\* ---------------------------------------------------------------- values
None == "None"
NoKey == << >>
NoValue == << >>
NoLatent == << >>
NoneVal == 0 - 1
Infinity == 1000

NoModel == [id |-> 0, src |-> None, lora |-> << >>, active |-> {}]

BasePaths == {"repoA", "repoB"}
ControlNetPaths == {None, "cnA"}
ProcessTypes == {"TextToImage", "ImageToImage"}
ProcessTypeInputs == ProcessTypes \cup {"Bogus"}
\* the memory modes utils.py knows
MemoryModes == {"Device", "LowMemDevice", "OffloadCPU", "OffloadModel",
                "LowMemOffloadModel", "MultiDevice"}
MemoryModeInputs == {"Device", "OffloadModel", "Bogus"}
LoraLists == {<< >>, <<"l1">>, <<"l1", "l2">>}
Platforms == {"windows", "posix"}

Prompts == {"a", "b"}
NegativePrompts == {None, "n"}
GuidanceScales == {1, 5}
SchedulerNames == {"euler", "nosuch"}

\* src/.../utils.py:50  the names _SCHEDULER_MAP knows (two of them kept)
_SCHEDULER_MAP == {"euler", "ddim"}

\* keys of a sampler configuration: the SchedulerOptions fields kept in the
\* model, and one key of the stored configuration that has no option field
OptionFields == {"beta_start", "sigma_min", "s_tmax", "flow_shift"}
ConfigKeys == OptionFields \cup {"trained_betas"}

\* the sampler configuration a freshly assembled pipeline comes with
DefaultSchedulerConfig ==
    [k \in ConfigKeys |->
        CASE k = "beta_start" -> 1
          [] k = "sigma_min" -> 7
          [] k = "s_tmax" -> 9
          [] k = "flow_shift" -> 1
          [] OTHER -> 4]
DefaultScheduler == [cls |-> "default", config |-> DefaultSchedulerConfig]

\* scheduler_options payloads a caller sends (before SchedulerOptions.__post_init__)
SchedulerPayloads ==
    { [beta_start |-> 1, sigma_min |-> NoneVal, s_tmax |-> 0, flow_shift |-> 1],
      [beta_start |-> 2, sigma_min |-> 3, s_tmax |-> 5, flow_shift |-> 2] }

LoraOptionInputs ==
    { [given |-> FALSE, names |-> {}],
      [given |-> TRUE, names |-> {"l1"}] }

NoPipeline ==
    [id |-> 0, text_encoder |-> NoModel, text_encoder_2 |-> NoModel,
     unet |-> NoModel, vae |-> NoModel, controlnet |-> NoModel,
     cls |-> None, scheduler |-> DefaultScheduler, interrupt |-> FALSE,
     placement |-> None, vae_tiling |-> FALSE]

PipelineConfigs ==
    [base_model_path : BasePaths, process_type : ProcessTypeInputs,
     memory_mode : MemoryModeInputs, lora_adapters : LoraLists,
     control_net_path : ControlNetPaths]

NoConfig ==
    [base_model_path |-> None, process_type |-> None, memory_mode |-> None,
     lora_adapters |-> << >>, control_net_path |-> None]

FailStages == {"none", "config", "fetch", "model", "control_net", "assemble",
               "lora", "memory"}

\* ------------------------------------------------------------- variables
VARIABLES
    pipeline,            \* _pipeline: the live handle, NoPipeline for None
    processType,         \* _processType
    control_net_path,    \* _control_net_path
    control_net_cache,   \* _control_net_cache
    step_latent,         \* _step_latent: <<call, step>> of the captured latent
    isMemoryOffload,     \* _isMemoryOffload
    prompt_cache_key,    \* _prompt_cache_key
    prompt_cache_value,  \* _prompt_cache_value
    cancel_event,        \* _cancel_event (threading.Event)
    platform,            \* the platform the process runs on
    pc,                  \* position of thread 1 inside generate
    call,                \* the running generate call: steps, current step
    nextModel,           \* sub-model objects created so far
    nextHandle,          \* pipeline objects created so far
    result,              \* what the last finished operation returned
    hist,                \* history of the running / last operation
    _HAS_TORCHAO,        \* quantization.py: the torchao import succeeded
    _HAS_QUANTO,         \* quantization.py: the optimum.quanto import succeeded
    quant,               \* the last call into quantization.py and its result
    sched,               \* a SchedulerOptions object and the payload it was built from
    tracker,             \* a ModelDownloadProgress object
    kandinsky,           \* the module-level state of Kandinsky5Pipeline.py
    logs,                \* sys.stderr, sys.stdout and the thread polling them
    ltx2                 \* the module-level state of LTX2Pipeline.py

vars == <<pipeline, processType, control_net_path, control_net_cache,
          step_latent, isMemoryOffload, prompt_cache_key, prompt_cache_value,
          cancel_event, platform, pc, call, nextModel, nextHandle, result,
          hist, _HAS_TORCHAO, _HAS_QUANTO, quant, sched, tracker, kandinsky,
          logs, ltx2>>

\* the module-level state of a pipeline script
script == <<pipeline, processType, control_net_path, control_net_cache,
            step_latent, isMemoryOffload, prompt_cache_key, prompt_cache_value,
            cancel_event, platform, pc, call, nextModel, nextHandle, result,
            hist>>

\* the state of the library objects the pipeline operations below do not use
aux ==
    <<_HAS_TORCHAO, _HAS_QUANTO, quant, sched, tracker, kandinsky, logs, ltx2>>

\* what a call into quantization.py leaves alone
QuantFrame ==
    UNCHANGED <<script, _HAS_TORCHAO, _HAS_QUANTO, sched, tracker, kandinsky, logs,
                ltx2>>

\* what the construction of a SchedulerOptions leaves alone
SchedFrame ==
    UNCHANGED <<script, _HAS_TORCHAO, _HAS_QUANTO, quant, tracker, kandinsky, logs,
                ltx2>>

\* what a call on the ModelDownloadProgress object leaves alone
TrackerFrame ==
    UNCHANGED <<script, _HAS_TORCHAO, _HAS_QUANTO, quant, sched, kandinsky, logs,
                ltx2>>

NoCall == [steps |-> 0, cur |-> 0]

\* an encode_prompt run: its key, the handle it ran on, and how many runs that
\* handle has seen
NoEncoding == [key |-> NoKey, first |-> NoKey, handle |-> 0, n |-> 0]

NoResult == [op |-> None, status |-> None, buffers |-> 0]

NoHist ==
    [loads |-> 0,            \* load / reload calls made
     calls |-> 0,            \* generate calls made
     trims |-> 0,            \* trim_memory runs inside the last operation
     cancelEarly |-> FALSE,  \* cancel() ran after the call, before the clear
     cancelWindow |-> FALSE, \* cancel() ran after the clear, before the last poll
     cancelLate |-> FALSE,   \* cancel() ran after the last poll
     setStep |-> 0,          \* step that was executing when the flag was set
     stale |-> FALSE,        \* the flag was set when the call was made
     reached |-> FALSE,      \* call reached the prompt-cache block
     encoded |-> FALSE,      \* call ran encode_prompt
     key |-> NoKey,          \* the call's (prompt, negative_prompt)
     cfg |-> FALSE,          \* the call's guidance_scale > 1
     options |-> [k \in OptionFields |-> NoneVal], \* the call's scheduler_options
     lastEnc |-> NoEncoding, \* the last encode_prompt run
     prevEnc |-> NoEncoding, \* the last encode_prompt run before the call
     before |-> NoPipeline,  \* the handle when the operation began
     beforeLatent |-> NoLatent,
     beforeModels |-> 0,
     beforeType |-> None,    \* _processType when the operation began
     prevFailed |-> FALSE,   \* the generate call before this one failed
     config |-> NoConfig,    \* the configuration given to the last load / reload
     built |-> NoConfig,     \* the configuration the live handle was built from
     prevBuilt |-> NoConfig] \* the same, when the operation began


\* --------------------------------------------------------------- helpers
IsLive(p) == p.id # 0

FreshModel(n, src) == [id |-> n, src |-> src, lora |-> << >>, active |-> {}]

\* (variant: OffloadCPU is given the model-level offload)
PlacementOf_one_offload(mode) ==
    IF mode \in {"Device", "LowMemDevice"} THEN "to_device"
    ELSE IF mode \in {"OffloadCPU", "OffloadModel", "LowMemOffloadModel"}
    THEN "model_cpu_offload"
    ELSE None

\* utils.py configure_pipeline_memory: the placement applied for a mode
PlacementOf(mode) ==
    IF mode \in {"Device", "LowMemDevice"} THEN "to_device"
    ELSE IF mode = "OffloadCPU" THEN "sequential_cpu_offload"
    ELSE IF mode \in {"OffloadModel", "LowMemOffloadModel"} THEN "model_cpu_offload"
    ELSE None

\* utils.py configure_pipeline_memory: the modes that switch on VAE tiling / slicing
EnablesTiling(mode) == mode \in {"OffloadCPU", "LowMemDevice", "LowMemOffloadModel"}

\* utils.py configure_pipeline_memory: the returned "is offload" flag
IsOffloadMode(mode) == mode \in {"OffloadCPU", "OffloadModel", "LowMemOffloadModel"}

configure_pipeline_memory(p, mode) ==
    [pipe |-> [p EXCEPT !.placement = IF PlacementOf(mode) = None THEN @ ELSE PlacementOf(mode),
                        !.vae_tiling = IF EnablesTiling(mode) /\ IsLive([id |-> p.vae.id]) THEN TRUE ELSE @],
     offload |-> IsOffloadMode(mode)]

\* utils.py trim_memory: gc.collect and empty_cache always run; with the
\* offload flag the working-set trim goes through ctypes.windll, which exists
\* on Windows only
trim_raises(offload) == offload /\ platform # "windows"

\* pipeline.unload_lora_weights(): the adapters live in the denoiser object
unload_lora_weights(p) == [p EXCEPT !.unet.lora = << >>, !.unet.active = {}]

\* (variant: the adapters already attached are not detached first)
load_lora_weights_keeps_baked(p, adapters, n) ==
    [p EXCEPT !.unet.lora = @ \o SubSeq(adapters, 1, n),
              !.unet.active = @ \cup {adapters[i] : i \in 1..n}]

\* utils.py load_lora_weights, the first n adapters of the list attached
load_lora_weights(p, adapters, n) ==
    [unload_lora_weights(p) EXCEPT !.unet.lora = SubSeq(adapters, 1, n),
                                   !.unet.active = {adapters[i] : i \in 1..n}]

\* (variant: the s_tmax sentinel is left as it is)
SchedulerOptions_keeps_sentinel(payload) == payload

\* data_objects.py SchedulerOptions.__post_init__
SchedulerOptions(payload) ==
    [payload EXCEPT !.s_tmax = IF @ = 0 THEN Infinity ELSE @]

\* (variant: an option that is None overrides the stored value too)
create_scheduler_none_overrides(scheduler_name, scheduler_options, scheduler_config) ==
    [cls |-> scheduler_name,
     config |-> [k \in ConfigKeys |->
                    IF k \in OptionFields
                    THEN scheduler_options[k]
                    ELSE scheduler_config[k]]]

\* utils.py create_scheduler
create_scheduler(scheduler_name, scheduler_options, scheduler_config) ==
    [cls |-> scheduler_name,
     config |-> [k \in ConfigKeys |->
                    IF k \in OptionFields /\ scheduler_options[k] # NoneVal
                    THEN scheduler_options[k]
                    ELSE scheduler_config[k]]]

\* pipeline.encode_prompt: the embedding for a prompt pair, as produced with
\* or without classifier-free guidance by the handle's text encoder
encode_prompt(p, prompt, negative_prompt, cfg) ==
    <<prompt, negative_prompt, cfg, p.text_encoder.id>>

\* (variant: the cache is keyed by the prompt alone)
PromptCacheMiss_prompt_only(prompt_cache_key_now, key) ==
    \/ prompt_cache_key_now = NoKey
    \/ prompt_cache_key_now[1] # key[1]

\* generate, line 187: is the cached embedding unusable for this key?
PromptCacheMiss(prompt_cache_key_now, key) == prompt_cache_key_now # key

\* (variant: the clear is missing)
ClearedEvent_noop(event) == event

\* generate, line 169: _cancel_event.clear()
ClearedEvent(event) == FALSE

\* (variant: the set is missing)
SetEvent_noop(event) == event

\* generateCancel, line 115: _cancel_event.set()
SetEvent(event) == TRUE

\* (variant: the callback does not look at the Event)
CancelRequested_never(event) == FALSE

\* _progress_callback, line 149: the poll of the cancellation Event
CancelRequested(event) == event

\* ------------------------------------------------------- sub-model loads
\* load_text_encoder / load_text_encoder_2 / load_unet / load_vae: the
\* sub-model of the live handle when there is one, a new object otherwise
Cached(existing, slot) == IsLive(existing) /\ existing[slot].id # 0

\* (variant: reload loads every sub-model again)
load_model_always_fresh(existing, slot, config, n) ==
    [m |-> FreshModel(n + 1, config.base_model_path), n |-> n + 1]

load_model(existing, slot, config, n) ==
    IF Cached(existing, slot)
    THEN [m |-> existing[slot], n |-> n]
    ELSE [m |-> FreshModel(n + 1, config.base_model_path), n |-> n + 1]

\* load_control_net; failed: ControlNetModel.from_pretrained raised
load_control_net(config, n, failed) ==
    IF control_net_cache.id # 0 /\ control_net_path = config.control_net_path
    THEN [m |-> control_net_cache, path |-> control_net_path,
          cache |-> control_net_cache, n |-> n, raised |-> FALSE]
    ELSE IF config.control_net_path = None
    THEN [m |-> NoModel, path |-> None, cache |-> NoModel, n |-> n, raised |-> FALSE]
    ELSE IF failed
    THEN [m |-> NoModel, path |-> config.control_net_path,
          cache |-> control_net_cache, n |-> n, raised |-> TRUE]
    ELSE [m |-> FreshModel(n + 1, config.control_net_path),
          path |-> config.control_net_path,
          cache |-> FreshModel(n + 1, config.control_net_path),
          n |-> n + 1, raised |-> FALSE]

\* create_pipeline up to the assembled object (pipeline.from_pretrained)
create_pipeline(existing, config, cnFailed) ==
    LET te  == load_model(existing, "text_encoder", config, nextModel)
        te2 == load_model(existing, "text_encoder_2", config, te.n)
        un  == load_model(existing, "unet", config, te2.n)
        va  == load_model(existing, "vae", config, un.n)
        cn  == load_control_net(config, va.n, cnFailed)
    IN  [pipe |-> [id |-> nextHandle + 1,
                   text_encoder |-> te.m, text_encoder_2 |-> te2.m,
                   unet |-> un.m, vae |-> va.m, controlnet |-> cn.m,
                   cls |-> config.process_type,
                   scheduler |-> DefaultScheduler, interrupt |-> FALSE,
                   placement |-> None, vae_tiling |-> FALSE],
         cn |-> cn, n |-> cn.n,
         loads_any |-> te.n # nextModel \/ te2.n # te.n \/ un.n # te2.n \/ va.n # un.n]


\* ---------------------------------------------------------- quantization
\* torch dtypes a configuration can name (data_objects.py get_data_type)
DTypes == {"bfloat16", "int8", "float8"}
QuantMemoryModes == {"Device", "OffloadCPU"}

\* file paths are sequences of tokens, the last one the extension
NoPath == << >>
CheckpointPaths == {NoPath, <<"m", ".safetensors">>, <<"m", ".gguf">>,
                    <<"m", ".GGUF">>}

BaseModelPaths == {<<"m">>, <<"m", ".gguf">>}

\* str.lower() on the tokens used
Lower(path) ==
    [i \in DOMAIN path |-> IF path[i] = ".GGUF" THEN ".gguf" ELSE path[i]]

\* str.endswith on token sequences
EndsWith(path, suffix) == Len(path) > 0 /\ path[Len(path)] = suffix

\* PipelineConfig.__post_init__: the value is_gguf is set to
is_gguf(model_checkpoint, base_model_path) ==
    \/ model_checkpoint # NoPath /\ EndsWith(Lower(model_checkpoint), ".gguf")
    \/ base_model_path # NoPath /\ EndsWith(Lower(base_model_path), ".gguf")

\* a loaded sub-model as the quantization code sees it
TensorModel(dtype) == [dtype |-> dtype, quantized |-> None]
NoTensorModel == TensorModel(None)

NoQuantConfig == <<None, None>>
NoPipelineQuantConfig == [none |-> TRUE, mapping |-> {}]

\* (variant: the OffloadCPU rule is missing)
is_quantization_supported_no_offload_rule(dtype, quant_dtype, memory_mode) ==
    IF ~(_HAS_TORCHAO \/ _HAS_QUANTO) THEN [ok |-> FALSE, why |-> "NoBackend"]
    ELSE IF quant_dtype = dtype THEN [ok |-> FALSE, why |-> "SameType"]
    ELSE [ok |-> TRUE, why |-> "Supported"]

\* quantization.py is_quantization_supported; why: the message it prints
is_quantization_supported(dtype, quant_dtype, memory_mode) ==
    IF ~(_HAS_TORCHAO \/ _HAS_QUANTO) THEN [ok |-> FALSE, why |-> "NoBackend"]
    ELSE IF memory_mode = "OffloadCPU" THEN [ok |-> FALSE, why |-> "OffloadCPU"]
    ELSE IF quant_dtype = dtype THEN [ok |-> FALSE, why |-> "SameType"]
    ELSE [ok |-> TRUE, why |-> "Supported"]

\* quantization.py get_quantize_model_config: (diffusers config, transformers config)
get_quantize_model_config(dtype, quant_dtype, memory_mode) ==
    IF ~is_quantization_supported(dtype, quant_dtype, memory_mode).ok
    THEN NoQuantConfig
    ELSE IF _HAS_TORCHAO /\ quant_dtype = "int8"
    THEN <<"DiffusersTorchAoConfig", "TransformersTorchAoConfig">>
    ELSE IF ~_HAS_TORCHAO /\ _HAS_QUANTO /\ quant_dtype = "int8"
    THEN <<"DiffusersQuantoConfig", "TransformersQuantoConfig">>
    ELSE NoQuantConfig

\* (variant: the test of the requested precision is missing)
quantize_model_any_precision(model, quant_dtype, memory_mode) ==
    IF ~is_quantization_supported(model.dtype, quant_dtype, memory_mode).ok
    THEN model
    ELSE IF _HAS_TORCHAO THEN [model EXCEPT !.quantized = "torchao"]
    ELSE [model EXCEPT !.quantized = "quanto"]

\* quantization.py quantize_model: the model after the call
quantize_model(model, quant_dtype, memory_mode) ==
    IF ~is_quantization_supported(model.dtype, quant_dtype, memory_mode).ok
    THEN model
    ELSE IF _HAS_TORCHAO /\ quant_dtype = "int8"
    THEN [model EXCEPT !.quantized = "torchao"]
    ELSE IF ~_HAS_TORCHAO /\ _HAS_QUANTO /\ quant_dtype = "int8"
    THEN [model EXCEPT !.quantized = "quanto"]
    ELSE model

\* quantization.py get_quantize_pipeline_config
get_quantize_pipeline_config(dtype, quant_dtype, memory_mode, diffusers, transformers) ==
    LET cfg == get_quantize_model_config(dtype, quant_dtype, memory_mode)
        quant_mapping ==
            IF quant_dtype = "int8" /\ cfg # NoQuantConfig
            THEN {<<name, cfg[1]>> : name \in diffusers}
                 \cup {<<name, cfg[2]>> : name \in transformers}
            ELSE {}
    IN  IF ~is_quantization_supported(dtype, quant_dtype, memory_mode).ok
        THEN NoPipelineQuantConfig
        ELSE IF quant_mapping = {} THEN NoPipelineQuantConfig
        ELSE [none |-> FALSE, mapping |-> quant_mapping]

\* the configurations the quantization code is driven with
QuantConfigs ==
    [data_type : DTypes, quant_data_type : DTypes,
     memory_mode : QuantMemoryModes, model_checkpoint : CheckpointPaths,
     base_model_path : BaseModelPaths]

\* ZImagePipeline.load_transformer (with the quantization config that
\* create_pipeline computes, line 168); checkpoint_dtype: the precision the
\* single-file checkpoint is stored in (from_single_file is called without
\* torch_dtype, line 237)
load_transformer(config, checkpoint_dtype) ==
    IF config.model_checkpoint # NoPath
    THEN quantize_model(TensorModel(checkpoint_dtype), config.quant_data_type,
                        config.memory_mode)
    ELSE [dtype |-> config.data_type,
          quantized |-> get_quantize_model_config(config.data_type,
                                                  config.quant_data_type,
                                                  config.memory_mode)[1]]

NoQuant ==
    [op |-> None, dtype |-> None, quant_dtype |-> None, memory_mode |-> None,
     data_type |-> None, is_gguf |-> FALSE,
     supported |-> [ok |-> FALSE, why |-> None],
     config |-> NoQuantConfig, pipeline_config |-> NoPipelineQuantConfig,
     names |-> 0, model |-> NoTensorModel, out |-> NoTensorModel,
     probe |-> <<FALSE, FALSE>>, declared |-> << >>, given |-> FALSE]

\* PipelineConfig(**config_args) with its __post_init__: declared holds the
\* base model path and the model, VAE and text-encoder checkpoints, given the
\* is_gguf value of the caller
construct_PipelineConfig(base_model_path, checkpoint_config, given) ==
    /\ QuantFrame
    /\ quant' = [NoQuant EXCEPT
                !.probe = quant.probe,
                !.op = "PipelineConfig",
                !.declared = <<base_model_path>> \o checkpoint_config,
                !.given = given,
                !.is_gguf = is_gguf(checkpoint_config[1], base_model_path)]

\* a caller asks whether quantization is supported
call_is_quantization_supported(dtype, quant_dtype, memory_mode) ==
    /\ QuantFrame
    /\ quant' = [quant EXCEPT
                !.op = "is_quantization_supported", !.dtype = dtype,
                !.data_type = dtype,
                !.quant_dtype = quant_dtype, !.memory_mode = memory_mode,
                !.is_gguf = FALSE,
                !.supported = is_quantization_supported(dtype, quant_dtype,
                                                        memory_mode),
                !.config = NoQuantConfig,
                !.pipeline_config = NoPipelineQuantConfig, !.names = 0,
                !.model = NoTensorModel, !.out = NoTensorModel]

call_get_quantize_model_config(dtype, quant_dtype, memory_mode) ==
    /\ QuantFrame
    /\ quant' = [quant EXCEPT
                !.op = "get_quantize_model_config", !.dtype = dtype,
                !.data_type = dtype,
                !.quant_dtype = quant_dtype, !.memory_mode = memory_mode,
                !.is_gguf = FALSE,
                !.supported = is_quantization_supported(dtype, quant_dtype,
                                                        memory_mode),
                !.config = get_quantize_model_config(dtype, quant_dtype,
                                                     memory_mode),
                !.pipeline_config = NoPipelineQuantConfig, !.names = 0,
                !.model = NoTensorModel, !.out = NoTensorModel]

call_get_quantize_pipeline_config(dtype, quant_dtype, memory_mode, diffusers, transformers) ==
    /\ QuantFrame
    /\ quant' = [quant EXCEPT
                !.op = "get_quantize_pipeline_config", !.dtype = dtype,
                !.data_type = dtype,
                !.quant_dtype = quant_dtype, !.memory_mode = memory_mode,
                !.is_gguf = FALSE,
                !.supported = is_quantization_supported(dtype, quant_dtype,
                                                        memory_mode),
                !.config = NoQuantConfig,
                !.pipeline_config =
                    get_quantize_pipeline_config(dtype, quant_dtype, memory_mode,
                                                 diffusers, transformers),
                !.names = Cardinality(diffusers) + Cardinality(transformers),
                !.model = NoTensorModel, !.out = NoTensorModel]

call_quantize_model(dtype, quant_dtype, memory_mode) ==
    /\ QuantFrame
    /\ quant' = [quant EXCEPT
                !.op = "quantize_model", !.dtype = dtype, !.data_type = dtype,
                !.quant_dtype = quant_dtype, !.memory_mode = memory_mode,
                !.is_gguf = FALSE,
                !.supported = is_quantization_supported(dtype, quant_dtype,
                                                        memory_mode),
                !.config = NoQuantConfig,
                !.pipeline_config = NoPipelineQuantConfig, !.names = 0,
                !.model = TensorModel(dtype),
                !.out = quantize_model(TensorModel(dtype), quant_dtype,
                                       memory_mode)]

\* a build loads the transformer for a configuration
call_load_transformer(config, checkpoint_dtype) ==
    /\ QuantFrame
    /\ quant' = [quant EXCEPT
                !.op = "load_transformer",
                !.dtype = IF config.model_checkpoint # NoPath
                          THEN checkpoint_dtype ELSE config.data_type,
                !.data_type = config.data_type,
                !.quant_dtype = config.quant_data_type,
                !.memory_mode = config.memory_mode,
                !.is_gguf = is_gguf(config.model_checkpoint,
                                    config.base_model_path),
                !.supported = is_quantization_supported(config.data_type,
                                                        config.quant_data_type,
                                                        config.memory_mode),
                !.config = get_quantize_model_config(config.data_type,
                                                     config.quant_data_type,
                                                     config.memory_mode),
                !.pipeline_config = NoPipelineQuantConfig, !.names = 0,
                !.model = TensorModel(IF config.model_checkpoint # NoPath
                                      THEN checkpoint_dtype
                                      ELSE config.data_type),
                !.out = load_transformer(config, checkpoint_dtype)]

\* the sub-model names a pipeline-level configuration is asked for
DiffusersNames == {{}, {"transformer"}}
TransformersNames == {{}, {"text_encoder"}}

\* ------------------------------------------------------ SchedulerOptions
\* scheduler_options payloads the construction is driven with
SchedulerPayloadInputs ==
    [beta_start : {0, 1, 2}, sigma_min : {NoneVal, 3},
     s_tmax : {0, 1, 5, Infinity}, flow_shift : {1, 2}]

EmptyPayload ==
    [beta_start |-> 0, sigma_min |-> NoneVal, s_tmax |-> 0, flow_shift |-> 0]

\* payload: what the caller sent; first: the object __post_init__ produced;
\* options: the object after the last __post_init__; n: how often it ran;
\* sampler: the sampler a generate call built from the object
NoSched ==
    [payload |-> EmptyPayload, first |-> EmptyPayload, options |-> EmptyPayload,
     n |-> 0, sampler |-> DefaultScheduler]

\* SchedulerOptions(**payload): __init__ and __post_init__
construct_SchedulerOptions ==
    /\ sched.n = 0
    /\ sched' = [sched EXCEPT !.first = SchedulerOptions(sched.payload),
                              !.options = SchedulerOptions(sched.payload),
                              !.n = 1]
    /\ SchedFrame

\* __post_init__ runs on the constructed object once more
renormalize_SchedulerOptions ==
    /\ sched.n = 1
    /\ sched' = [sched EXCEPT !.options = SchedulerOptions(sched.options),
                              !.n = 2]
    /\ SchedFrame

\* WanPipeline.generate, lines 184-189: the options object of the call gets
\* its flow_shift from the height, then Utils.create_scheduler builds the
\* sampler from it (KeyError for an unknown name, after the assignment)
Wan_generate(height, scheduler) ==
    /\ sched.n = 1
    /\ sched.sampler = DefaultScheduler
    /\ LET scheduler_options ==
               [sched.options EXCEPT !.flow_shift = IF height > 480 THEN 5 ELSE 3]
       IN  sched' = [sched EXCEPT
                        !.options = scheduler_options,
                        !.sampler = IF scheduler \in _SCHEDULER_MAP
                                    THEN create_scheduler(scheduler, scheduler_options,
                                                          DefaultSchedulerConfig)
                                    ELSE @]
    /\ SchedFrame

\* -------------------------------------------------- ModelDownloadProgress
MaxMB == 2              \* size of a downloaded file, in MB
MaxTrackerCalls == 4    \* calls on the tracker in a behaviour of SpecProgress
MaxOrderCalls == 6      \* calls on the tracker after which no download reports

\* str.startswith on strings written as sequences of tokens
StartsWith(str, prefix) ==
    /\ Len(prefix) <= Len(str)
    /\ SubSeq(str, 1, Len(prefix)) = prefix

EmptyStr == << >>
\* the names Initialize is called with, and the file names tqdm reports
TrackedModels == { <<"text_encoder">>, <<"vae">>, <<"control_net">> }
TrackedFiles == { <<"model", ".safetensors">>, <<"vae", ".bin">> }
NoFile == <<"None">>
\* the (model_index, model_name) pairs a build calls Initialize with, and the
\* total_models a build constructs the tracker with (without and with a
\* control-net)
InitializeCalls ==
    { <<0, <<"text_encoder">>>>, <<3, <<"vae">>>>, <<4, <<"control_net">>>> }
TotalModelsInputs == {4, 5}
\* the (downloaded, total) pairs reported for a file: nothing known yet, or
\* some part of its size
ReportedAmounts == {<<0, 0>>} \cup {<<d, MaxMB>> : d \in 1..MaxMB}

total_per_model == 1000

\* the create_pipeline of a script: the order of its load_* calls, each with
\* the Initialize it makes (and whether it makes it only for a control-net),
\* and the total_models it constructs the tracker with
BuildOrder(name) ==
    CASE name = "ZImage" ->
           << <<0, <<"text_encoder">>, FALSE>>, <<2, <<"transformer">>, FALSE>>,
              <<3, <<"vae">>, FALSE>> >>
      [] name = "Flux" ->
           << <<0, <<"text_encoder">>, FALSE>>, <<1, <<"text_encoder", "_2">>, FALSE>>,
              <<2, <<"transformer">>, FALSE>>, <<3, <<"vae">>, FALSE>>,
              <<4, <<"control_net">>, FALSE>> >>
      [] name = "StableDiffusionXL" ->
           << <<0, <<"text_encoder">>, FALSE>>, <<1, <<"text_encoder", "_2">>, FALSE>>,
              <<2, <<"unet">>, FALSE>>, <<3, <<"vae">>, FALSE>>,
              <<4, <<"control_net">>, TRUE>> >>

ModelCount(name, control_net) ==
    IF name = "ZImage" THEN 3 ELSE IF control_net THEN 5 ELSE 4

\* name: the script building; stage: how many load_* calls have returned;
\* inits: the Initialize calls made so far
NoBuild ==
    [name |-> None, control_net |-> FALSE, stage |-> 0, inits |-> << >>,
     cleared |-> FALSE]

NoReport == [model |-> 0 - 1, overall |-> 0 - 1, max |-> 0 - 1]

\* the fields of a ModelDownloadProgress, and what the calls on it so far
\* were:  last: the method that ran last;  previous, before_total: model_name
\* and total_models when it began;  arg: the argument of Reset;  report: the line _print_progress printed
\* last since construction, Clear or Reset;  prev: the line before that one;
\* first: the last Update was the first one since Initialize;  fresh: the
\* files updated since Initialize;  mono: since Initialize no Update lowered
\* the downloaded amount of a file;  load_mono: the same since construction,
\* Clear or Reset, and every Initialize raised model_index, and every Update
\* came after an Initialize;  build: the create_pipeline that made the tracker
NoTracker ==
    [total_models |-> 1, model_index |-> 0, model_name |-> EmptyStr,
     download_stats |-> << >>, last |-> None, previous |-> EmptyStr,
     before_total |-> 1, report |-> NoReport, prev |-> NoReport,
     first |-> FALSE, fresh |-> {}, mono |-> TRUE, load_mono |-> TRUE,
     arg |-> 0, calls |-> 0, build |-> NoBuild]

\* the sum of downloaded / max(total, 0.001) over the files S, as a fraction
RECURSIVE FractionSum(_, _)
FractionSum(stats, S) ==
    IF S = {} THEN <<0, 1>>
    ELSE LET fn == CHOOSE x \in S : TRUE
             x == stats[fn]
             num == IF x.total = 0 THEN x.downloaded * 1000 ELSE x.downloaded
             den == IF x.total = 0 THEN 1 ELSE x.total
             rest == FractionSum(stats, S \ {fn})
         IN  <<rest[1] * den + num * rest[2], rest[2] * den>>

\* ModelDownloadProgress._print_progress: the entries averaged
current_files(stats, model_name) ==
    {fn \in DOMAIN stats : stats[fn].model = model_name}

\* ModelDownloadProgress._print_progress: the numbers of the printed line
_print_progress(stats, model_index, model_name, total_models) ==
    LET files == current_files(stats, model_name)
        sum == FractionSum(stats, files)
        scaled_model_progress ==
            IF files = {} THEN 0
            ELSE (sum[1] * total_per_model) \div (sum[2] * Cardinality(files))
    IN  [model |-> scaled_model_progress,
         overall |-> model_index * total_per_model + scaled_model_progress,
         max |-> total_models * total_per_model]

\* what every call on the tracker records
Called(name) ==
    [tracker EXCEPT !.last = name, !.previous = tracker.model_name,
                    !.before_total = tracker.total_models, !.calls = @ + 1]

\* ModelDownloadProgress.Initialize: the tracker after it
Initialized(model_index, model_name) ==
    LET stats == tracker.download_stats
        marked == [fn \in DOMAIN stats |->
                      IF tracker.model_name # EmptyStr
                         /\ StartsWith(fn, tracker.model_name)
                      THEN [stats[fn] EXCEPT !.downloaded = stats[fn].total]
                      ELSE stats[fn]]
        kept == {fn \in DOMAIN stats : ~StartsWith(fn, model_name)}
    IN [Called("Initialize") EXCEPT
           !.model_index = model_index,
           !.model_name = model_name,
           !.download_stats = [fn \in kept |-> marked[fn]],
           !.first = FALSE, !.fresh = {}, !.mono = TRUE,
           !.load_mono =
               /\ tracker.load_mono
               /\ tracker.model_name # EmptyStr =>
                     model_index > tracker.model_index]

\* ModelDownloadProgress.Initialize
Initialize(model_index, model_name) ==
    /\ tracker' = Initialized(model_index, model_name)
    /\ TrackerFrame

\* the entry ModelDownloadProgress.Update stores under filename
UpdatedStats(filename, downloaded, total) ==
    LET stats == tracker.download_stats
    IN [fn \in DOMAIN stats \cup {filename} |->
           IF fn = filename
           THEN [downloaded |-> downloaded, total |-> total,
                 model |-> tracker.model_name]
           ELSE stats[fn]]

\* ModelDownloadProgress.Update (with _print_progress)
Update(filename, downloaded, total) ==
    LET stats == tracker.download_stats
        lowered == /\ filename \in tracker.fresh
                   /\ downloaded < stats[filename].downloaded
    IN /\ tracker' = [Called("Update") EXCEPT
                         !.download_stats = UpdatedStats(filename, downloaded, total),
                         !.report = _print_progress(
                                        UpdatedStats(filename, downloaded, total),
                                        tracker.model_index, tracker.model_name,
                                        tracker.total_models),
                         !.prev = tracker.report,
                         !.first = (tracker.fresh = {}),
                         !.fresh = @ \cup {filename},
                         !.mono = @ /\ ~lowered,
                         !.load_mono = /\ @
                                       /\ ~lowered
                                       /\ tracker.model_name # EmptyStr]
       /\ TrackerFrame

\* the tqdm.update hook: desc is "<model>/<filename>", or has no "/" and then
\* filename is None
patched_update(model, filename, downloaded, total) ==
    IF model # EmptyStr /\ filename # NoFile /\ model = tracker.model_name
    THEN Update(filename, downloaded, total)
    ELSE IF model # EmptyStr /\ tracker.model_name = <<"control_net">>
    THEN Update(filename, downloaded, total)
    ELSE /\ tracker' = Called("patched_update")
         /\ TrackerFrame

\* (variant: Clear keeps the per-file entries)
Cleared_keeps_entries(t) ==
    [t EXCEPT !.model_index = 0, !.model_name = EmptyStr,
              !.report = NoReport, !.prev = NoReport, !.first = FALSE,
              !.fresh = {}, !.mono = TRUE, !.load_mono = TRUE]

\* ModelDownloadProgress.Clear: the tracker after it
Cleared(t) ==
    [t EXCEPT !.model_index = 0, !.model_name = EmptyStr,
              !.download_stats = << >>,
              !.report = NoReport, !.prev = NoReport, !.first = FALSE,
              !.fresh = {}, !.mono = TRUE, !.load_mono = TRUE]

\* ModelDownloadProgress.Clear
Clear ==
    /\ tracker' = Cleared(Called("Clear"))
    /\ TrackerFrame

\* ModelDownloadProgress.Reset
Reset(total_models) ==
    /\ tracker' = Cleared([Called("Reset") EXCEPT !.total_models = total_models,
                                                  !.arg = total_models])
    /\ TrackerFrame

\* create_pipeline: a new tracker is constructed
create_pipeline_begin(name, control_net) ==
    /\ tracker.build.name = None
    /\ tracker' = [NoTracker EXCEPT
                       !.total_models = ModelCount(name, control_net),
                       !.before_total = ModelCount(name, control_net),
                       !.build = [NoBuild EXCEPT !.name = name,
                                                 !.control_net = control_net]]
    /\ TrackerFrame

\* create_pipeline: the next load_* function runs
create_pipeline_load ==
    LET b == tracker.build
        order == BuildOrder(b.name)
        step == order[b.stage + 1]
    IN /\ b.name # None
       /\ b.stage < Len(order)
       /\ tracker' =
             IF step[3] /\ ~b.control_net
             THEN [tracker EXCEPT !.build.stage = @ + 1]
             ELSE [Initialized(step[1], step[2]) EXCEPT
                      !.build.stage = @ + 1,
                      !.build.inits = Append(@, <<step[1], step[2]>>)]
       /\ TrackerFrame

\* create_pipeline: tqdm reports a file of the sub-model being loaded
create_pipeline_download(filename, downloaded, total) ==
    /\ tracker.build.name # None
    /\ tracker.build.stage > 0
    /\ ~tracker.build.cleared
    /\ patched_update(tracker.model_name, filename, downloaded, total)

\* create_pipeline: every load_* has returned, the tracker is cleared
create_pipeline_clear ==
    /\ tracker.build.name # None
    /\ tracker.build.stage = Len(BuildOrder(tracker.build.name))
    /\ ~tracker.build.cleared
    /\ tracker' = [Cleared(Called("Clear")) EXCEPT !.build.cleared = TRUE]
    /\ TrackerFrame

\* ------------------------------------------------------------------ Init
\* ---------------------------------------------------------------------------
\* Kandinsky5Pipeline.py (QwenImagePipeline.py has the same load and unload,
\* without the prompt cache)

\* lines 13-20: the globals after import.  pipeline is "None", "live", or
\* "unbound" once `del _pipeline` has removed the module global
NoKandinsky ==
    [pipeline |-> None, isMemoryOffload |-> FALSE, prompt_cache_key |-> None,
     op |-> None, status |-> None, before |-> None]

\* load(...): from_pretrained raises or binds _pipeline; _isMemoryOffload is
\* set for the two offload options and never cleared
Kandinsky5_load(isModelOffloadEnabled, isFullOffloadEnabled, fail) ==
    /\ kandinsky' =
          IF fail
          THEN [kandinsky EXCEPT !.op = "load", !.status = "ModelLoadError",
                                 !.before = kandinsky.pipeline]
          ELSE [kandinsky EXCEPT !.op = "load", !.status = "ok",
                                 !.before = kandinsky.pipeline,
                                 !.pipeline = "live",
                                 !.isMemoryOffload =
                                     IF isFullOffloadEnabled \/ isModelOffloadEnabled
                                     THEN TRUE ELSE @]
    /\ UNCHANGED <<script, _HAS_TORCHAO, _HAS_QUANTO, quant, sched, tracker, logs,
                   ltx2>>

\* unload(): the cache is cleared, then _pipeline.remove_all_hooks() is called
\* on whatever the global holds, then `del _pipeline`, then trim_memory
Kandinsky5_unload ==
    /\ kandinsky' =
          LET called == [kandinsky EXCEPT !.op = "unload",
                                          !.before = kandinsky.pipeline,
                                          !.prompt_cache_key = None]
          IN  CASE kandinsky.pipeline = "unbound" ->
                       [called EXCEPT !.status = "NameError"]
                [] kandinsky.pipeline = None ->
                       [called EXCEPT !.status = "AttributeError"]
                [] OTHER ->
                       [called EXCEPT !.pipeline = "unbound",
                                      !.status =
                                          IF trim_raises(kandinsky.isMemoryOffload)
                                          THEN "TrimError" ELSE "ok"]
    /\ UNCHANGED <<script, _HAS_TORCHAO, _HAS_QUANTO, quant, sched, tracker, logs,
                   ltx2>>

\* ---------------------------------------------------------------------------
\* LTX2Pipeline.py

\* the handle: one object per slot, each with the subfolder it was loaded from
NoLTX2Pipeline ==
    [id |-> 0, cls |-> None, text_encoder |-> NoModel, transformer |-> NoModel,
     vae |-> NoModel, audio_vae |-> NoModel]

\* lines 23-38: the globals after import; before, models, loads, op and status
\* record the last call
NoLTX2 ==
    [pipeline |-> NoLTX2Pipeline, processType |-> None,
     before |-> NoLTX2Pipeline, models |-> 0, beforeModels |-> 0, handles |-> 0,
     loads |-> 0, op |-> None, status |-> None]

\* load_text_encoder / load_transformer / load_vae_video / load_vae_audio:
\* cached is the attribute of the live handle the function tests and returns
LTX2_load_model(existing, cached, subfolder, n) ==
    IF existing.id # 0 /\ existing[cached].id # 0
    THEN [m |-> existing[cached], n |-> n]
    ELSE [m |-> FreshModel(n + 1, subfolder), n |-> n + 1]

\* create_pipeline, lines 244-273
LTX2_create_pipeline(existing, process_type, n, handles) ==
    LET te == LTX2_load_model(existing, "text_encoder", "text_encoder", n)
        tr == LTX2_load_model(existing, "transformer", "transformer", te.n)
        va == LTX2_load_model(existing, "vae", "vae", tr.n)
        au == LTX2_load_model(existing, "vae", "audio_vae", va.n)
    IN  [pipe |-> [id |-> handles + 1, cls |-> process_type,
                   text_encoder |-> te.m, transformer |-> tr.m,
                   vae |-> va.m, audio_vae |-> au.m],
         n |-> au.n]

\* the record of a call that begins now
LTX2_called(op) ==
    [ltx2 EXCEPT !.op = op, !.before = ltx2.pipeline, !.beforeModels = ltx2.models]

\* load, lines 59-77; fail: from_pretrained raises while the handle is assembled
LTX2_load(process_type, fail) ==
    /\ LET cp == LTX2_create_pipeline(ltx2.pipeline, process_type, ltx2.models,
                                      ltx2.handles)
       IN  ltx2' = IF fail
                   THEN [LTX2_called("load") EXCEPT
                            !.processType = process_type, !.models = cp.n,
                            !.loads = @ + 1, !.status = "AssembleError"]
                   ELSE [LTX2_called("load") EXCEPT
                            !.processType = process_type, !.models = cp.n,
                            !.handles = @ + 1, !.pipeline = cp.pipe,
                            !.loads = @ + 1, !.status = "ok"]
    /\ UNCHANGED <<script, _HAS_TORCHAO, _HAS_QUANTO, quant, sched, tracker,
                   kandinsky, logs>>

\* reload, lines 83-102; without a handle _pipeline.unload_lora_weights() raises
LTX2_reload(process_type, fail) ==
    /\ LET cp == LTX2_create_pipeline(ltx2.pipeline, process_type, ltx2.models,
                                      ltx2.handles)
       IN  ltx2' = IF ltx2.pipeline.id = 0
                   THEN [LTX2_called("reload") EXCEPT
                            !.processType = process_type,
                            !.loads = @ + 1, !.status = "AttributeError"]
                   ELSE IF fail
                   THEN [LTX2_called("reload") EXCEPT
                            !.processType = process_type, !.models = cp.n,
                            !.loads = @ + 1, !.status = "AssembleError"]
                   ELSE [LTX2_called("reload") EXCEPT
                            !.processType = process_type, !.models = cp.n,
                            !.handles = @ + 1, !.pipeline = cp.pipe,
                            !.loads = @ + 1, !.status = "ok"]
    /\ UNCHANGED <<script, _HAS_TORCHAO, _HAS_QUANTO, quant, sched, tracker,
                   kandinsky, logs>>

\* unload, lines 115-121
LTX2_unload ==
    /\ ltx2' = [LTX2_called("unload") EXCEPT !.pipeline = NoLTX2Pipeline,
                                             !.status = "ok"]
    /\ UNCHANGED <<script, _HAS_TORCHAO, _HAS_QUANTO, quant, sched, tracker,
                   kandinsky, logs>>

\* ---------------------------------------------------------------------------
\* utils.py MemoryStdout, redirect_output, get_output

MaxWrites == 3

\* redirect_output(): two empty buffers; written and returned keep, per buffer,
\* every text passed to write and every text get_output has returned
NoLogs ==
    [stderr |-> << >>, stdout |-> << >>, pc |-> "idle", stderr_copy |-> << >>,
     output |-> << >>,
     written  |-> [stderr |-> << >>, stdout |-> << >>],
     returned |-> [stderr |-> << >>, stdout |-> << >>]]

\* get_log_history without the clear
get_log_history_keeps_log(_log_history) ==
    [logs_copy |-> _log_history, _log_history |-> _log_history]

\* MemoryStdout.get_log_history: copy and clear under the lock
get_log_history(_log_history) ==
    [logs_copy |-> _log_history, _log_history |-> << >>]

\* MemoryStdout.write of sys.stderr or sys.stdout: one append under the lock
write(stream, text) ==
    /\ logs' = [logs EXCEPT ![stream] = Append(@, text),
                            !.written[stream] = Append(@, text)]
    /\ UNCHANGED <<script, _HAS_TORCHAO, _HAS_QUANTO, quant, sched, tracker,
                   kandinsky, ltx2>>

\* get_output, left operand: sys.stderr.get_log_history()
get_output_stderr ==
    /\ logs.pc = "idle"
    /\ LET h == get_log_history(logs.stderr)
       IN  logs' = [logs EXCEPT !.stderr = h._log_history,
                                !.stderr_copy = h.logs_copy,
                                !.pc = "stdout"]
    /\ UNCHANGED <<script, _HAS_TORCHAO, _HAS_QUANTO, quant, sched, tracker,
                   kandinsky, ltx2>>

\* get_output, right operand and return: stderr lines, then stdout lines
get_output_stdout ==
    /\ logs.pc = "stdout"
    /\ LET h == get_log_history(logs.stdout)
       IN  logs' = [logs EXCEPT !.stdout = h._log_history,
                                !.stderr_copy = << >>,
                                !.output = logs.stderr_copy \o h.logs_copy,
                                !.returned.stderr = @ \o logs.stderr_copy,
                                !.returned.stdout = @ \o h.logs_copy,
                                !.pc = "idle"]
    /\ UNCHANGED <<script, _HAS_TORCHAO, _HAS_QUANTO, quant, sched, tracker,
                   kandinsky, ltx2>>

InitScript ==
    /\ pipeline = NoPipeline
    /\ processType = None
    /\ control_net_path = None
    /\ control_net_cache = NoModel
    /\ step_latent = NoLatent
    /\ isMemoryOffload = FALSE
    /\ prompt_cache_key = NoKey
    /\ prompt_cache_value = NoValue
    /\ cancel_event = FALSE
    /\ platform \in Platforms
    /\ pc = "idle"
    /\ call = NoCall
    /\ nextModel = 0
    /\ nextHandle = 0
    /\ result = NoResult
    /\ hist = NoHist

\* the library objects before any call on them
InitLibrary ==
    /\ _HAS_TORCHAO = FALSE
    /\ _HAS_QUANTO = FALSE
    /\ quant = NoQuant
    /\ sched = NoSched
    /\ tracker = NoTracker
    /\ kandinsky = NoKandinsky
    /\ logs = NoLogs
    /\ ltx2 = NoLTX2

Init == InitScript /\ InitLibrary

\* history of an operation that begins now
BeginOp ==
    [NoHist EXCEPT !.loads = hist.loads, !.calls = hist.calls,
                   !.lastEnc = hist.lastEnc, !.prevEnc = hist.lastEnc,
                   !.built = hist.built, !.prevBuilt = hist.built,
                   !.before = pipeline,
                   !.beforeLatent = step_latent, !.beforeModels = nextModel,
                   !.beforeType = processType]

BuildStatus(rank) ==
    CASE rank = 1 -> "ConfigurationError"
      [] rank = 2 -> "FetchError"
      [] rank = 3 -> "ModelLoadError"
      [] rank = 4 -> "ControlNetLoadError"
      [] rank = 5 -> "AssembleError"
      [] rank = 6 -> "LoraError"
      [] rank = 7 -> "MemoryError"
      [] rank = 8 -> "TrimError"
      [] OTHER -> "ok"

\* can the failure named by fail happen in this build?
Applicable(config, fail, cp) ==
    /\ fail = "model" => cp.loads_any
    /\ fail = "control_net" => cp.cn.raised
    /\ fail \in {"assemble", "lora", "memory"} => config.process_type \in ProcessTypes
    /\ fail = "lora" => Len(config.lora_adapters) > 0
    /\ fail = "memory" => PlacementOf(config.memory_mode) # None

\* the statement of load / reload at which the call raises (9: it returns)
Rank(config, fail, trimFlag) ==
    IF fail = "config" THEN 1
    ELSE IF fail = "fetch" THEN 2
    ELSE IF fail = "model" THEN 3
    ELSE IF fail = "control_net" THEN 4
    ELSE IF fail = "assemble" \/ config.process_type \notin ProcessTypes THEN 5
    ELSE IF fail = "lora" THEN 6
    ELSE IF fail = "memory" THEN 7
    ELSE IF trim_raises(trimFlag) THEN 8
    ELSE 9

\* the handle after Utils.load_lora_weights and configure_pipeline_memory,
\* cut short at the statement that raises
Installed(built, config, rank, j) ==
    IF rank = 6 THEN load_lora_weights(built, config.lora_adapters, j - 1)
    ELSE LET full == load_lora_weights(built, config.lora_adapters,
                                       Len(config.lora_adapters))
             placed == configure_pipeline_memory(full, config.memory_mode).pipe
         IN  IF rank = 7 THEN [placed EXCEPT !.placement = full.placement]
             ELSE placed

\* --------------------------------------------------------------- load
\* StableDiffusionXLPipeline.load (with initialize and create_pipeline)
load(config, fail, j) ==
    /\ pc = "idle"
    /\ LET cp   == create_pipeline(pipeline, config, fail = "control_net")
           rank == Rank(config, fail, IsOffloadMode(config.memory_mode))
       IN  /\ Applicable(config, fail, cp)
           /\ j \in IF fail = "lora" THEN 1..Len(config.lora_adapters) ELSE {1}
           /\ processType' = IF rank > 1 THEN config.process_type ELSE processType
           /\ control_net_path' = IF rank >= 4 THEN cp.cn.path ELSE control_net_path
           /\ control_net_cache' = IF rank >= 4 THEN cp.cn.cache ELSE control_net_cache
           /\ nextModel' = IF rank >= 5 THEN cp.n ELSE nextModel
           /\ nextHandle' = IF rank >= 6 THEN nextHandle + 1 ELSE nextHandle
           /\ pipeline' = IF rank >= 6 THEN Installed(cp.pipe, config, rank, j)
                          ELSE pipeline
           /\ isMemoryOffload' = IF rank >= 8 THEN IsOffloadMode(config.memory_mode)
                                 ELSE isMemoryOffload
           /\ result' = [op |-> "load", status |-> BuildStatus(rank), buffers |-> 0]
           /\ hist' = [BeginOp EXCEPT !.loads = @ + 1, !.config = config,
                                      !.built = IF rank >= 6 THEN config ELSE @,
                                      !.trims = IF rank >= 8 THEN 1 ELSE 0]
    /\ UNCHANGED aux
    /\ UNCHANGED <<step_latent, prompt_cache_key, prompt_cache_value,
                   cancel_event, platform, pc, call>>

\* --------------------------------------------------------------- reload
\* StableDiffusionXLPipeline.reload
reload(config, fail, j) ==
    /\ pc = "idle"
    /\ fail # "fetch"
    /\ LET stripped == unload_lora_weights(pipeline)
           cp   == create_pipeline(stripped, config, fail = "control_net")
           rank == IF fail # "config" /\ ~IsLive(pipeline) THEN 2
                   ELSE Rank(config, fail, isMemoryOffload)
       IN  /\ IsLive(pipeline) => Applicable(config, fail, cp)
           /\ ~IsLive(pipeline) => fail \in {"none", "config"}
           /\ j \in IF fail = "lora" THEN 1..Len(config.lora_adapters) ELSE {1}
           /\ processType' = IF rank > 1 THEN config.process_type ELSE processType
           /\ control_net_path' = IF rank >= 4 THEN cp.cn.path ELSE control_net_path
           /\ control_net_cache' = IF rank >= 4 THEN cp.cn.cache ELSE control_net_cache
           /\ nextModel' = IF rank >= 5 THEN cp.n ELSE nextModel
           /\ nextHandle' = IF rank >= 6 THEN nextHandle + 1 ELSE nextHandle
           /\ pipeline' = IF rank >= 6 THEN Installed(cp.pipe, config, rank, j)
                          ELSE IF rank >= 3 THEN stripped
                          ELSE pipeline
           /\ result' = [op |-> "reload",
                         status |-> IF rank = 2 THEN "AttributeError" ELSE BuildStatus(rank),
                         buffers |-> 0]
           /\ hist' = [BeginOp EXCEPT !.loads = @ + 1, !.config = config,
                                      !.built = IF rank >= 6 THEN config ELSE @,
                                      !.trims = IF rank >= 8 THEN 1 ELSE 0]
    /\ UNCHANGED aux
    /\ UNCHANGED <<step_latent, isMemoryOffload, prompt_cache_key,
                   prompt_cache_value, cancel_event, platform, pc, call>>

\* --------------------------------------------------------------- unload
\* StableDiffusionXLPipeline.unload
unload ==
    /\ pc = "idle"
    /\ pipeline' = NoPipeline
    /\ prompt_cache_key' = NoKey
    /\ prompt_cache_value' = NoValue
    /\ result' = [op |-> "unload",
                  status |-> IF trim_raises(isMemoryOffload) THEN "TrimError" ELSE "ok",
                  buffers |-> 0]
    /\ hist' = [BeginOp EXCEPT !.trims = 1, !.built = NoConfig]
    /\ UNCHANGED aux
    /\ UNCHANGED <<processType, control_net_path, control_net_cache, step_latent,
                   isMemoryOffload, cancel_event, platform, pc, call, nextModel,
                   nextHandle>>


\* ------------------------------------------------------------- generate
\* (variant: the sampler name is stored on the handle before it is looked up)
apply_sampler_and_adapters_name_first(p, options) ==
    LET named == [p EXCEPT !.scheduler.cls = options.scheduler]
        withScheduler ==
            [p EXCEPT !.scheduler =
                create_scheduler(options.scheduler, options.scheduler_options,
                                 p.scheduler.config)]
        attached == {p.unet.lora[i] : i \in 1..Len(p.unet.lora)}
    IN  IF options.scheduler \notin _SCHEDULER_MAP
        THEN [status |-> "UnknownScheduler", pipe |-> named]
        ELSE IF options.lora_options.given
                /\ ~(options.lora_options.names \subseteq attached)
        THEN [status |-> "UnknownAdapter", pipe |-> withScheduler]
        ELSE IF options.lora_options.given
        THEN [status |-> "ok",
              pipe |-> [withScheduler EXCEPT !.unet.active = options.lora_options.names]]
        ELSE [status |-> "ok", pipe |-> withScheduler]

\* generate, lines 176-179: Utils.create_scheduler and Utils.set_lora_weights
\* on the live handle; the statement that raises leaves what was assigned
apply_sampler_and_adapters(p, options) ==
    LET withScheduler ==
            [p EXCEPT !.scheduler =
                create_scheduler(options.scheduler, options.scheduler_options,
                                 p.scheduler.config)]
        attached == {p.unet.lora[i] : i \in 1..Len(p.unet.lora)}
    IN  IF options.scheduler \notin _SCHEDULER_MAP
        THEN [status |-> "UnknownScheduler", pipe |-> p]
        ELSE IF options.lora_options.given
                /\ ~(options.lora_options.names \subseteq attached)
        THEN [status |-> "UnknownAdapter", pipe |-> withScheduler]
        ELSE IF options.lora_options.given
        THEN [status |-> "ok",
              pipe |-> [withScheduler EXCEPT !.unet.active = options.lora_options.names]]
        ELSE [status |-> "ok", pipe |-> withScheduler]

GenerateInputs ==
    [prompt : Prompts, negative_prompt : NegativePrompts,
     guidance_scale : GuidanceScales, steps : 1..MaxSteps,
     scheduler : SchedulerNames, scheduler_options : SchedulerPayloads,
     lora_options : LoraOptionInputs]

Failed(status) ==
    [op |-> "generate", status |-> status, buffers |-> 0]

\* thread 1 calls generate; no statement of it has run yet
generate_call ==
    /\ pc = "idle"
    /\ pc' = "entered"
    /\ call' = NoCall
    /\ result' = [op |-> "generate", status |-> "running", buffers |-> 0]
    /\ hist' = [BeginOp EXCEPT !.calls = @ + 1,
                               !.stale = cancel_event,
                               !.prevFailed = /\ result.op = "generate"
                                              /\ result.status # "ok"]
    /\ UNCHANGED aux
    /\ UNCHANGED <<pipeline, processType, control_net_path, control_net_cache,
                   step_latent, isMemoryOffload, prompt_cache_key,
                   prompt_cache_value, cancel_event, platform, nextModel,
                   nextHandle>>

\* generate, lines 169-170: _cancel_event.clear(); _pipeline._interrupt = False
generate_clear ==
    /\ pc = "entered"
    /\ cancel_event' = ClearedEvent(cancel_event)
    /\ IF IsLive(pipeline)
       THEN /\ pipeline' = [pipeline EXCEPT !.interrupt = FALSE]
            /\ pc' = "setup"
            /\ UNCHANGED result
       ELSE /\ pc' = "idle"
            /\ result' = Failed("AttributeError")
            /\ UNCHANGED pipeline
    /\ UNCHANGED aux
    /\ UNCHANGED <<processType, control_net_path, control_net_cache, step_latent,
                   isMemoryOffload, prompt_cache_key, prompt_cache_value,
                   platform, call, nextModel, nextHandle, hist>>

\* generate, lines 173-215: options, sampler, adapters, prompt cache, and the
\* start of the generation loop (denoising step 1 begins)
generate_setup(args) ==
    /\ pc = "setup"
    /\ LET options == [args EXCEPT !.scheduler_options = SchedulerOptions(@)]
           applied == apply_sampler_and_adapters(pipeline, options)
           prompt_key == <<options.prompt, options.negative_prompt>>
           cfg == options.guidance_scale > 1
           miss == PromptCacheMiss(prompt_cache_key, prompt_key)
       IN  /\ pipeline' = applied.pipe
           /\ IF applied.status # "ok"
              THEN /\ pc' = "idle"
                   /\ result' = Failed(applied.status)
                   /\ UNCHANGED <<prompt_cache_key, prompt_cache_value, call, hist>>
              ELSE /\ pc' = "step"
                   /\ prompt_cache_key' = IF miss THEN prompt_key ELSE prompt_cache_key
                   /\ prompt_cache_value' =
                          IF miss
                          THEN encode_prompt(pipeline, options.prompt,
                                             options.negative_prompt, cfg)
                          ELSE prompt_cache_value
                   /\ call' = [steps |-> options.steps, cur |-> 1]
                   /\ hist' = [hist EXCEPT
                                 !.cfg = cfg, !.reached = TRUE, !.encoded = miss,
                                 !.options = options.scheduler_options,
                                 !.key = prompt_key,
                                 !.lastEnc =
                                     IF miss
                                     THEN [key |-> prompt_key,
                                           first |-> IF @.handle = pipeline.id
                                                     THEN @.first ELSE prompt_key,
                                           handle |-> pipeline.id,
                                           n |-> IF @.handle = pipeline.id
                                                 THEN @.n + 1 ELSE 1]
                                     ELSE @]
                   /\ UNCHANGED result
    /\ UNCHANGED aux
    /\ UNCHANGED <<processType, control_net_path, control_net_cache, step_latent,
                   isMemoryOffload, cancel_event, platform, nextModel, nextHandle>>

\* the denoising step that is executing raises on its own (out of memory, ...)
generate_step_raises ==
    /\ pc = "step"
    /\ pc' = "idle"
    /\ result' = Failed("GenerationError")
    /\ UNCHANGED aux
    /\ UNCHANGED <<hist, pipeline, processType, control_net_path, control_net_cache,
                   step_latent, isMemoryOffload, prompt_cache_key,
                   prompt_cache_value, cancel_event, platform, call, nextModel,
                   nextHandle>>

\* _progress_callback at the end of denoising step call.cur; when it returns
\* the loop goes on with the next step, or leaves the loop after the last one
_progress_callback ==
    /\ pc = "step"
    /\ IF CancelRequested(cancel_event)
       THEN /\ pipeline' = [pipeline EXCEPT !.interrupt = TRUE]
            /\ pc' = "idle"
            /\ result' = Failed("OperationCanceled")
            /\ UNCHANGED <<step_latent, call>>
       ELSE /\ step_latent' = <<hist.calls, call.cur>>
            /\ IF call.cur < call.steps
               THEN /\ call' = [call EXCEPT !.cur = @ + 1]
                    /\ pc' = "step"
               ELSE /\ pc' = "post"
                    /\ UNCHANGED call
            /\ UNCHANGED <<pipeline, result>>
    /\ UNCHANGED aux
    /\ UNCHANGED <<processType, control_net_path, control_net_cache,
                   isMemoryOffload, prompt_cache_key, prompt_cache_value,
                   cancel_event, platform, nextModel, nextHandle, hist>>

\* generate, lines 237-244: output of the loop, transpose, trim_memory, return
generate_return ==
    /\ pc = "post"
    /\ pc' = "idle"
    /\ result' = IF trim_raises(isMemoryOffload)
                 THEN Failed("TrimError")
                 ELSE [op |-> "generate", status |-> "ok", buffers |-> 1]
    /\ hist' = [hist EXCEPT !.trims = @ + 1]
    /\ UNCHANGED aux
    /\ UNCHANGED <<pipeline, processType, control_net_path, control_net_cache,
                   step_latent, isMemoryOffload, prompt_cache_key,
                   prompt_cache_value, cancel_event, platform, call, nextModel,
                   nextHandle>>

\* generateCancel, called by thread 2 at any time
generateCancel ==
    /\ cancel_event' = SetEvent(cancel_event)
    /\ hist' = IF pc = "idle" THEN hist
               ELSE [hist EXCEPT !.cancelEarly = @ \/ pc = "entered",
                                 !.cancelWindow = @ \/ pc \in {"setup", "step"},
                                 !.cancelLate = @ \/ pc = "post",
                                 !.setStep = IF pc = "step" /\ ~cancel_event
                                             THEN call.cur ELSE @]
    /\ UNCHANGED aux
    /\ UNCHANGED <<pipeline, processType, control_net_path, control_net_cache,
                   step_latent, isMemoryOffload, prompt_cache_key,
                   prompt_cache_value, platform, pc, call, nextModel, nextHandle,
                   result>>

\* getStepLatent
getStepLatent == step_latent

\* ------------------------------------------------------------------ Next
\* one step of the program: the callers' inputs are drawn from the given
\* sets, at most Loads builds and at most Calls generate calls are made
NextWith(Configs, Fails, Inputs, Loads, Calls) ==
    \/ /\ hist.loads < Loads
       /\ \E config \in Configs, fail \in Fails, j \in 1..MaxAdapters :
              load(config, fail, j)
    \/ /\ hist.loads < Loads
       /\ \E config \in Configs, fail \in Fails, j \in 1..MaxAdapters :
              reload(config, fail, j)
    \/ unload
    \/ hist.calls < Calls /\ generate_call
    \/ generate_clear
    \/ \E args \in Inputs : generate_setup(args)
    \/ generate_step_raises
    \/ _progress_callback
    \/ generate_return
    \/ generateCancel

\* Spec: cancellation and failure of generate: every interleaving of the two
\* threads, sampler and adapter inputs, one prompt
GenConfigs ==
    {c \in PipelineConfigs : /\ c.base_model_path = "repoA"
                             /\ c.process_type = "TextToImage"
                             /\ c.control_net_path = None
                             /\ \/ c.memory_mode = "Device" /\ c.lora_adapters = <<"l1">>
                                \/ c.memory_mode = "OffloadModel" /\ c.lora_adapters = << >>}
GenInputs ==
    {a \in GenerateInputs : /\ a.prompt = "a"
                            /\ a.negative_prompt = None
                            /\ a.guidance_scale = 1}

Next == NextWith(GenConfigs, {"none"}, GenInputs, MaxLoads, MaxCalls)

Spec == Init /\ [][Next]_vars


\* SpecCache: the prompt cache: every (prompt, negative_prompt, guidance)
\* input, on handles built from one configuration, one thread; a second
\* configuration has a process type the script does not know
CacheConfigs ==
    {c \in PipelineConfigs : /\ c.base_model_path = "repoA"
                             /\ c.process_type \in {"TextToImage", "Bogus"}
                             /\ c.memory_mode = "Device"
                             /\ c.lora_adapters = << >>
                             /\ c.control_net_path = None}
CacheInputs ==
    {a \in GenerateInputs : /\ a.steps = 1
                            /\ a.scheduler = "euler"
                            /\ a.scheduler_options.s_tmax = 0
                            /\ ~a.lora_options.given}

NextCache ==
    \/ /\ hist.loads < MaxCacheLoads
       /\ \E config \in CacheConfigs : load(config, "none", 1)
    \/ /\ hist.loads < MaxCacheLoads
       /\ \E config \in CacheConfigs : reload(config, "none", 1)
    \/ unload
    \/ hist.calls < MaxCacheCalls /\ generate_call
    \/ generate_clear
    \/ \E args \in CacheInputs : generate_setup(args)
    \/ generate_step_raises
    \/ _progress_callback
    \/ generate_return

SpecCache == Init /\ [][NextCache]_vars

\* SpecBuild: load / reload / unload alone: configurations that differ from
\* one base configuration in at most one field, every failure stage
BaseConfig ==
    [base_model_path |-> "repoA", process_type |-> "TextToImage",
     memory_mode |-> "Device", lora_adapters |-> <<"l1">>,
     control_net_path |-> "cnA"]
BuildConfigs ==
    {c \in PipelineConfigs :
        Cardinality({f \in DOMAIN c : c[f] # BaseConfig[f]}) <= 1}

NextBuild ==
    \/ /\ hist.loads < MaxBuildLoads
       /\ \E config \in BuildConfigs, fail \in FailStages, j \in 1..MaxAdapters :
              load(config, fail, j)
    \/ /\ hist.loads < MaxBuildLoads
       /\ \E config \in BuildConfigs, fail \in FailStages, j \in 1..MaxAdapters :
              reload(config, fail, j)
    \/ unload

SpecBuild == Init /\ [][NextBuild]_vars

\* load, reload and unload in every memory mode
NextMemory ==
    \/ /\ hist.loads < MaxBuildLoads
       /\ \E mode \in MemoryModes \cup {"Bogus"}, fail \in {"none", "memory"} :
              load([BaseConfig EXCEPT !.memory_mode = mode], fail, 1)
    \/ /\ hist.loads < MaxBuildLoads
       /\ \E mode \in MemoryModes \cup {"Bogus"}, fail \in {"none", "memory"} :
              reload([BaseConfig EXCEPT !.memory_mode = mode], fail, 1)
    \/ unload

SpecMemory == Init /\ [][NextMemory]_vars

\* load, reload and unload with two control-net paths and with none, the
\* control-net load failing or not
NextControlNet ==
    \/ /\ hist.loads < MaxControlNetLoads
       /\ \E path \in {None, "cnA", "cnB"}, fail \in {"none", "control_net"} :
              load([BaseConfig EXCEPT !.control_net_path = path], fail, 1)
    \/ /\ hist.loads < MaxControlNetLoads
       /\ \E path \in {None, "cnA", "cnB"}, fail \in {"none", "control_net"} :
              reload([BaseConfig EXCEPT !.control_net_path = path], fail, 1)
    \/ unload

SpecControlNet == Init /\ [][NextControlNet]_vars

\* load and unload of the two kinds of script, in any order
NextRelease ==
    \/ /\ hist.loads < MaxBuildLoads
       /\ \E mode \in MemoryModes, fail \in {"none", "memory"} :
              load([BaseConfig EXCEPT !.memory_mode = mode], fail, 1)
    \/ unload
    \/ \E isModelOffloadEnabled \in BOOLEAN, isFullOffloadEnabled \in BOOLEAN, fail \in BOOLEAN :
          Kandinsky5_load(isModelOffloadEnabled, isFullOffloadEnabled, fail)
    \/ Kandinsky5_unload

SpecRelease == Init /\ [][NextRelease]_vars

\* load, reload and unload of the LTX2 script in any order
NextLTX2 ==
    \/ /\ ltx2.loads < MaxBuildLoads
       /\ \E process_type \in {"TextToVideo", "ImageToVideo"}, fail \in BOOLEAN :
              LTX2_load(process_type, fail)
    \/ /\ ltx2.loads < MaxBuildLoads
       /\ \E process_type \in {"TextToVideo", "ImageToVideo"}, fail \in BOOLEAN :
              LTX2_reload(process_type, fail)
    \/ LTX2_unload

SpecLTX2 == Init /\ [][NextLTX2]_vars

\* threads writing to the two redirected streams while one thread polls
NextLogs ==
    \/ /\ Len(logs.written.stderr) + Len(logs.written.stdout) < MaxWrites
       /\ \E stream \in {"stderr", "stdout"}, text \in {"a", "b"} :
              write(stream, text)
    \/ get_output_stderr
    \/ get_output_stdout

SpecLogs == Init /\ [][NextLogs]_vars

\* the quantization policy on its own: the backends are probed once, when the
\* module is imported, and every function is called with every argument
InitQuant ==
    /\ InitScript
    /\ _HAS_TORCHAO \in BOOLEAN
    /\ _HAS_QUANTO \in BOOLEAN
    /\ quant = [NoQuant EXCEPT !.probe = <<_HAS_TORCHAO, _HAS_QUANTO>>]
    /\ sched = NoSched
    /\ tracker = NoTracker
    /\ kandinsky = NoKandinsky
    /\ logs = NoLogs
    /\ ltx2 = NoLTX2

NextQuant ==
    \/ \E dtype \in DTypes, quant_dtype \in DTypes, memory_mode \in QuantMemoryModes :
          call_is_quantization_supported(dtype, quant_dtype, memory_mode)
    \/ \E dtype \in DTypes, quant_dtype \in DTypes, memory_mode \in QuantMemoryModes :
          call_get_quantize_model_config(dtype, quant_dtype, memory_mode)
    \/ \E dtype \in DTypes, quant_dtype \in DTypes, memory_mode \in QuantMemoryModes,
          diffusers \in DiffusersNames, transformers \in TransformersNames :
          call_get_quantize_pipeline_config(dtype, quant_dtype, memory_mode,
                                            diffusers, transformers)
    \/ \E dtype \in DTypes, quant_dtype \in DTypes, memory_mode \in QuantMemoryModes :
          call_quantize_model(dtype, quant_dtype, memory_mode)
    \/ \E config \in QuantConfigs, checkpoint_dtype \in DTypes :
          call_load_transformer(config, checkpoint_dtype)

SpecQuant == InitQuant /\ [][NextQuant]_vars

\* every PipelineConfig a caller can declare paths for
NextConfig ==
    \E base_model_path \in BaseModelPaths,
       checkpoint_config \in [1..3 -> CheckpointPaths], given \in BOOLEAN :
        construct_PipelineConfig(base_model_path, checkpoint_config, given)

SpecConfig == InitQuant /\ [][NextConfig]_vars

\* SchedulerOptions on its own: every payload is constructed, and the
\* constructed object normalized once more
InitSched ==
    /\ InitScript
    /\ _HAS_TORCHAO = FALSE
    /\ _HAS_QUANTO = FALSE
    /\ quant = NoQuant
    /\ sched \in {[NoSched EXCEPT !.payload = p] : p \in SchedulerPayloadInputs}
    /\ tracker = NoTracker
    /\ kandinsky = NoKandinsky
    /\ logs = NoLogs
    /\ ltx2 = NoLTX2

NextSched == construct_SchedulerOptions \/ renormalize_SchedulerOptions

SpecSched == InitSched /\ [][NextSched]_vars

\* a Wan generate call on every constructed options object
NextWan ==
    \/ construct_SchedulerOptions
    \/ \E height \in {480, 720}, scheduler \in SchedulerNames :
          Wan_generate(height, scheduler)

SpecWan == InitSched /\ [][NextWan]_vars

\* the download tracker on its own, driven through its methods
InitProgress ==
    /\ InitScript
    /\ platform = "posix"
    /\ _HAS_TORCHAO = FALSE
    /\ _HAS_QUANTO = FALSE
    /\ quant = NoQuant
    /\ sched = NoSched
    /\ tracker \in {[NoTracker EXCEPT !.total_models = n] : n \in TotalModelsInputs}
    /\ kandinsky = NoKandinsky
    /\ logs = NoLogs
    /\ ltx2 = NoLTX2

NextProgress ==
    \/ /\ tracker.calls < MaxTrackerCalls
       /\ \E c \in InitializeCalls : Initialize(c[1], c[2])
    \/ /\ tracker.calls < MaxTrackerCalls
       /\ \E filename \in TrackedFiles, amount \in ReportedAmounts :
             Update(filename, amount[1], amount[2])
    \/ /\ tracker.calls < MaxTrackerCalls
       /\ \E model \in TrackedModels \cup {EmptyStr},
             filename \in TrackedFiles \cup {NoFile}, amount \in ReportedAmounts :
             patched_update(model, filename, amount[1], amount[2])
    \/ /\ tracker.calls < MaxTrackerCalls
       /\ Clear
    \/ /\ tracker.calls < MaxTrackerCalls
       /\ \E total_models \in TotalModelsInputs : Reset(total_models)

SpecProgress == InitProgress /\ [][NextProgress]_vars

\* the create_pipeline of three scripts, with and without a control-net, and
\* the download reports that arrive while it runs
NextOrder ==
    \/ \E name \in {"ZImage", "Flux", "StableDiffusionXL"}, control_net \in BOOLEAN :
          create_pipeline_begin(name, control_net)
    \/ create_pipeline_load
    \/ /\ tracker.calls < MaxOrderCalls
       /\ \E filename \in TrackedFiles, amount \in ReportedAmounts :
             create_pipeline_download(filename, amount[1], amount[2])
    \/ create_pipeline_clear

SpecOrder == Init /\ [][NextOrder]_vars


\* ---------------------------------------------------------------- claims
\* a generate call has returned to its caller (or raised)
Done == pc = "idle" /\ result.op = "generate"

\* generateCancel ran between the entry of the generate call and its return
CancelledDuring == hist.cancelEarly \/ hist.cancelWindow \/ hist.cancelLate

SubModelSlots == {"text_encoder", "text_encoder_2", "unet", "vae"}

\* C1: when the cancellation flag is set while denoising step N executes, no
\* step after N is executed, the call never returns a sample buffer, and it
\* ends in OperationCanceled (the only other way out of step N is that the
\* step raises on its own before its callback runs)
C1_CancelDuringStep ==
    (result.op = "generate" /\ hist.setStep # 0) =>
        /\ call.cur = hist.setStep
        /\ pc \in {"step", "idle"}
        /\ pc = "idle" =>
              /\ result.buffers = 0
              /\ result.status \in {"OperationCanceled", "GenerationError"}
              /\ result.status = "OperationCanceled" => pipeline.interrupt

C1_Witness ==
    /\ Done
    /\ result.status = "OperationCanceled"
    /\ hist.setStep = 1
    /\ call.steps = 2
    /\ call.cur = 1

\* C2 as stated: whenever generateCancel runs at any point after generate was
\* entered, a call with valid options ends in OperationCanceled with no buffer
C2_AnyCancelCancels ==
    (Done /\ CancelledDuring /\ result.status \in {"ok", "OperationCanceled"}) =>
        /\ result.status = "OperationCanceled"
        /\ result.buffers = 0

\* C2 amended: a generateCancel that lands after generate has cleared the
\* flag and before the callback of the last step polls it stays set, the call
\* never reaches its output and fails (OperationCanceled unless it fails
\* earlier on its own); a generateCancel that lands before the clear is erased
\* by it
C2_CancelInWindow ==
    /\ (result.op = "generate" /\ hist.cancelWindow) =>
          /\ cancel_event
          /\ pc \in {"setup", "step", "idle"}
          /\ pc = "idle" =>
                /\ result.buffers = 0
                /\ result.status \in {"OperationCanceled", "UnknownScheduler",
                                      "UnknownAdapter", "GenerationError"}
    /\ (result.op = "generate" /\ hist.cancelEarly
           /\ ~hist.cancelWindow /\ ~hist.cancelLate) =>
          /\ pc \in {"setup", "step", "post"} => ~cancel_event
          /\ pc = "idle" => result.status # "OperationCanceled"

C2_Witness ==
    /\ Done
    /\ hist.cancelWindow
    /\ ~hist.cancelEarly
    /\ hist.setStep = 0
    /\ result.status = "OperationCanceled"
    /\ call.steps = 2

\* C3: generate clears the flag before anything else: when generateCancel
\* does not run during a call, the flag is clear from the clear on, the call
\* is never cancelled and the loop runs every step of it
C3_StaleCancelIgnored ==
    (result.op = "generate" /\ ~CancelledDuring) =>
        /\ pc \in {"setup", "step", "post"} => ~cancel_event
        /\ pc = "post" => call.cur = call.steps
        /\ pc = "idle" =>
              /\ result.status # "OperationCanceled"
              /\ result.status \in {"ok", "TrimError"} => call.cur = call.steps

C3_Witness ==
    /\ Done
    /\ hist.stale
    /\ ~CancelledDuring
    /\ result.status = "ok"
    /\ result.buffers = 1
    /\ call.steps = 2
    /\ call.cur = 2

\* C4 as stated: after a cancelled generate call getStepLatent returns a
\* latent captured by that same call, never one captured by an earlier call
C4_LatentOfSameCall ==
    (Done /\ result.status = "OperationCanceled") =>
        IF getStepLatent = NoLatent THEN TRUE
        ELSE getStepLatent[1] = hist.calls /\ getStepLatent[2] <= call.cur

\* C5 as stated: trim_memory has run exactly once when a generate call that
\* reached the generation loop returns or raises
C5_TrimOnEveryExit ==
    (Done /\ result.status \in {"ok", "TrimError", "GenerationError",
                                "OperationCanceled"}) =>
        hist.trims = 1

FailedGenerate ==
    /\ Done
    /\ result.status \in {"UnknownScheduler", "UnknownAdapter",
                          "GenerationError", "OperationCanceled"}

SameSubModels(p, q) ==
    /\ p.id = q.id
    /\ \A slot \in SubModelSlots : p[slot].id = q[slot].id
    /\ p.unet.lora = q.unet.lora
    /\ p.controlnet = q.controlnet

C7_EncodeIffKeyChanged ==
    (result.op = "generate" /\ hist.reached
        /\ hist.prevEnc.handle = hist.before.id) =>
        /\ hist.encoded <=> hist.key # hist.prevEnc.key
        /\ prompt_cache_key = hist.key
        /\ hist.lastEnc.n = hist.prevEnc.n + (IF hist.encoded THEN 1 ELSE 0)

\* the keys A, B, A on one handle: three encodings in three calls
C7_Witness ==
    /\ Done
    /\ hist.calls = 3
    /\ hist.lastEnc.n = 3
    /\ hist.lastEnc.key = hist.lastEnc.first
    /\ hist.prevEnc.key # hist.lastEnc.key
    /\ hist.prevEnc.key[1] # hist.lastEnc.key[1]

\* C8 as stated: after load or reload has installed a new handle the prompt
\* cache is empty
C8_CacheEmptyOnNewHandle ==
    (result.op \in {"load", "reload"} /\ pipeline.id # hist.before.id) =>
        /\ prompt_cache_key = NoKey
        /\ prompt_cache_value = NoValue

\* C9 as stated: after a load made while a handle was live, the new handle
\* shares no sub-model with the previous one and holds only sub-models loaded
\* for the new configuration
C9_LoadSharesNothing ==
    (result.op = "load" /\ IsLive(hist.before)
        /\ pipeline.id # hist.before.id) =>
        \A slot \in SubModelSlots :
            /\ pipeline[slot].id # hist.before[slot].id
            /\ pipeline[slot].src = hist.config.base_model_path

ProcessTypeOnly(new, old) ==
    /\ new.process_type # old.process_type
    /\ new = [old EXCEPT !.process_type = new.process_type]

\* C10: a reload on a live handle whose configuration differs from the one
\* the handle was built from only in process_type keeps the text encoders and
\* the autoencoder (and the denoiser) by identity, none of them an object
\* loaded by the reload, and re-attaches the configuration's adapters
C10_ReloadReusesSubModels ==
    (result.op = "reload" /\ IsLive(hist.before)
        /\ pipeline.id # hist.before.id
        /\ ProcessTypeOnly(hist.config, hist.prevBuilt)) =>
        /\ \A slot \in SubModelSlots :
              /\ pipeline[slot].id = hist.before[slot].id
              /\ pipeline[slot].id <= hist.beforeModels
        /\ pipeline.cls = hist.config.process_type
        /\ result.status = "ok" => pipeline.unet.lora = hist.config.lora_adapters

C10_Witness ==
    /\ result.op = "reload"
    /\ result.status = "ok"
    /\ IsLive(hist.before)
    /\ pipeline.id # hist.before.id
    /\ ProcessTypeOnly(hist.config, hist.prevBuilt)
    /\ pipeline.vae.id = hist.before.vae.id
    /\ pipeline.vae.id # 0


BuildFailures == {"ConfigurationError", "FetchError", "ModelLoadError",
                  "ControlNetLoadError", "AssembleError", "LoraError",
                  "MemoryError"}

\* C11 as stated: when load fails at any stage, no handle produced by that
\* load call is live afterwards
C11_FailedLoadInstallsNothing ==
    (result.op = "load" /\ result.status \in BuildFailures) =>
        pipeline.id = hist.before.id

\* C12 as stated: when reload fails on a live handle, the handle with its
\* attached adapters and the recorded process type are as before the call
C12_FailedReloadChangesNothing ==
    (result.op = "reload" /\ IsLive(hist.before)
        /\ result.status \in BuildFailures) =>
        /\ pipeline = hist.before
        /\ processType = hist.beforeType

\* C13 as stated: a configuration whose process_type or memory_mode is not a
\* declared value is rejected: the call fails and installs no handle
C13_UnknownEnumRejected ==
    (result.op \in {"load", "reload"}
        /\ \/ hist.config.process_type \notin ProcessTypes
           \/ hist.config.memory_mode \notin MemoryModes) =>
        /\ result.status # "ok"
        /\ pipeline.id = hist.before.id


\* C14 as stated: after a load with an unknown process_type has failed and no
\* handle exists, generate fails with a condition of its own that says that
\* no pipeline is loaded
C14_NoPipelineCondition ==
    (Done /\ processType \notin ProcessTypes \cup {None}
        /\ ~IsLive(hist.before)) =>
        /\ ~IsLive(pipeline)
        /\ result.buffers = 0
        /\ result.status = "NoPipelineLoaded"


\* ------------------------------------------------------------ quantization
\* C15: whenever quant_data_type equals data_type or memory_mode is
\* OffloadCPU, is_quantization_supported is false, get_quantize_model_config
\* returns (None, None), get_quantize_pipeline_config returns None and the
\* sub-model comes back from quantize_model as it went in
C15_NoQuantizationWhenSameOrOffload ==
    (/\ quant.op # None
     /\ \/ quant.quant_dtype = quant.data_type
        \/ quant.memory_mode = "OffloadCPU") =>
        /\ ~quant.supported.ok
        /\ quant.config = NoQuantConfig
        /\ quant.pipeline_config.none
        /\ quant.out = quant.model

\* C16: is_quantization_supported is true exactly when a backend was found
\* by the import-time probe, memory_mode is not OffloadCPU and the requested
\* precision differs from the native one; the rules apply in that order, every
\* unsupported case is a plain False, and the backends are those of the probe
C16_SupportedIffThreeRules ==
    quant.op = "is_quantization_supported" =>
        LET backend == _HAS_TORCHAO \/ _HAS_QUANTO
            offload == quant.memory_mode = "OffloadCPU"
            same == quant.quant_dtype = quant.dtype
        IN /\ quant.supported.ok \in BOOLEAN
           /\ quant.supported.ok <=> (backend /\ ~offload /\ ~same)
           /\ quant.supported.why =
                 (IF ~backend THEN "NoBackend"
                  ELSE IF offload THEN "OffloadCPU"
                  ELSE IF same THEN "SameType" ELSE "Supported")
           /\ quant.probe = <<_HAS_TORCHAO, _HAS_QUANTO>>

\* a call in OffloadCPU mode with a backend and differing precisions was refused
C16_Witness ==
    /\ quant.op = "is_quantization_supported"
    /\ _HAS_QUANTO /\ ~_HAS_TORCHAO
    /\ quant.memory_mode = "OffloadCPU"
    /\ quant.quant_dtype = "int8" /\ quant.dtype = "bfloat16"
    /\ quant.supported = [ok |-> FALSE, why |-> "OffloadCPU"]

\* C17: when quantization is supported but the requested precision is not
\* int8, get_quantize_model_config returns (None, None),
\* get_quantize_pipeline_config returns None and quantize_model returns
\* without changing the model
C17_NoStrategyMeansNoQuantization ==
    (/\ quant.op \in {"get_quantize_model_config",
                      "get_quantize_pipeline_config", "quantize_model"}
     /\ quant.supported.ok
     /\ quant.quant_dtype # "int8") =>
        /\ quant.config = NoQuantConfig
        /\ quant.pipeline_config = NoPipelineQuantConfig
        /\ quant.out = quant.model

\* quantize_model was called for float8 on a bfloat16 model with torchao present
C17_Witness ==
    /\ quant.op = "quantize_model"
    /\ _HAS_TORCHAO
    /\ quant.supported.ok
    /\ quant.quant_dtype = "float8" /\ quant.model.dtype = "bfloat16"
    /\ quant.out = quant.model

\* C18: for a configuration whose is_gguf flag is true the loaded sub-model
\* carries no quantization, neither from a declarative config nor from
\* quantize_model
C18_GgufNeverQuantized ==
    (quant.op = "load_transformer" /\ quant.is_gguf) => quant.out.quantized = None

\* --------------------------------------------------------- SchedulerOptions
\* C19: constructing SchedulerOptions turns s_tmax = 0 into +infinity and
\* leaves every other field, and every non-zero s_tmax, as supplied;
\* normalizing the result again changes nothing
C19_SchedulerOptionsRoundTrip ==
    /\ sched.n >= 1 =>
          /\ sched.first.s_tmax =
                (IF sched.payload.s_tmax = 0 THEN Infinity ELSE sched.payload.s_tmax)
          /\ \A f \in DOMAIN sched.payload \ {"s_tmax"} :
                sched.first[f] = sched.payload[f]
    /\ sched.n = 2 => sched.options = sched.first

\* a payload with s_tmax = 0 and another zero field was constructed and
\* normalized twice
C19_Witness ==
    /\ sched.n = 2
    /\ sched.payload.s_tmax = 0 /\ sched.payload.beta_start = 0
    /\ sched.options.s_tmax = Infinity /\ sched.options.beta_start = 0

\* ----------------------------------------------------- ModelDownloadProgress
\* C20: after Initialize has switched the tracker from one model to another,
\* every entry Update recorded for the previous model has downloaded = total
C20_PreviousModelSnapped ==
    (/\ tracker.last = "Initialize"
     /\ tracker.previous # EmptyStr
     /\ tracker.previous # tracker.model_name) =>
        \A fn \in DOMAIN tracker.download_stats :
            tracker.download_stats[fn].model = tracker.previous =>
                tracker.download_stats[fn].downloaded
                    = tracker.download_stats[fn].total

\* C21: between an Initialize and the next Initialize, Clear or Reset, as
\* long as no Update lowers the downloaded amount of a file, the per-model
\* progress an Update reports is never below the one reported before it
C21_ModelProgressMonotonic ==
    (tracker.last = "Update" /\ ~tracker.first /\ tracker.mono) =>
        tracker.report.model >= tracker.prev.model

\* C22: across a load in which Initialize is called with increasing model
\* indices and no Update lowers the downloaded amount of a file, the overall
\* progress an Update reports is never below the one reported before it
C22_OverallProgressMonotonic ==
    (tracker.last = "Update" /\ tracker.prev # NoReport /\ tracker.load_mono) =>
        tracker.report.overall >= tracker.prev.overall

\* C23: the per-model progress an Update reports is the average over exactly
\* the files updated since the most recent Initialize
C23_AverageOverCurrentFiles ==
    (tracker.last = "Update" /\ tracker.model_name # EmptyStr) =>
        current_files(tracker.download_stats, tracker.model_name) = tracker.fresh

\* C24: Clear and Reset(n) leave model index 0, no active model and no
\* per-file entries; Clear keeps total_models, Reset sets it to n
C24_ClearAndReset ==
    /\ tracker.last \in {"Clear", "Reset"} =>
          /\ tracker.model_index = 0
          /\ tracker.model_name = EmptyStr
          /\ DOMAIN tracker.download_stats = {}
    /\ tracker.last = "Clear" => tracker.total_models = tracker.before_total
    /\ tracker.last = "Reset" => tracker.total_models = tracker.arg

\* Clear ran on a tracker that had an active model
C24_Witness ==
    /\ tracker.last = "Clear"
    /\ tracker.previous # EmptyStr
    /\ tracker.calls >= 3
    /\ DOMAIN tracker.download_stats = {}

\* the place of a sub-model in the declared order: text encoders, denoiser,
\* autoencoders, control-net
SubModelRank(model_name) ==
    CASE model_name = <<"text_encoder">> -> 1
      [] model_name = <<"text_encoder", "_2">> -> 2
      [] model_name \in {<<"transformer">>, <<"unet">>} -> 3
      [] model_name = <<"vae">> -> 4
      [] model_name = <<"control_net">> -> 6
      [] OTHER -> 0

\* C25: in a build the sub-models are loaded in the declared order, and the
\* tracker's Initialize is called with strictly increasing model indices that
\* are all smaller than total_models
C25_BuildOrderAndIndices ==
    LET inits == tracker.build.inits
    IN \A i \in 1..Len(inits) :
          /\ inits[i][1] < ModelCount(tracker.build.name, tracker.build.control_net)
          /\ i > 1 => /\ inits[i][1] > inits[i - 1][1]
                      /\ SubModelRank(inits[i][2]) > SubModelRank(inits[i - 1][2])

\* ------------------------------------------------ configure_pipeline_memory
\* a load or reload got past configure_pipeline_memory
Placed ==
    /\ result.op \in {"load", "reload"}
    /\ result.status \in {"ok", "TrimError"}
    /\ hist.config.memory_mode \in MemoryModes

\* C26: configure_pipeline_memory moves the whole pipeline to the device for
\* Device and LowMemDevice, enables sequential CPU offload for OffloadCPU,
\* model-level CPU offload for OffloadModel and LowMemOffloadModel, none of
\* them for MultiDevice, and returns true exactly for the three offload modes
\* (load stores the returned value in _isMemoryOffload, reload drops it)
C26_OnePlacementPerMode ==
    Placed =>
        LET mode == hist.config.memory_mode
        IN /\ pipeline.placement =
                 (CASE mode \in {"Device", "LowMemDevice"} -> "to_device"
                    [] mode = "OffloadCPU" -> "sequential_cpu_offload"
                    [] mode \in {"OffloadModel", "LowMemOffloadModel"} -> "model_cpu_offload"
                    [] mode = "MultiDevice" -> None)
           /\ result.op = "load" =>
                 (isMemoryOffload <=>
                     mode \in {"OffloadCPU", "OffloadModel", "LowMemOffloadModel"})

\* a load into OffloadCPU followed a load into Device
C26_Witness ==
    /\ Placed
    /\ result.op = "load"
    /\ hist.config.memory_mode = "OffloadCPU"
    /\ hist.before.placement = "to_device"
    /\ pipeline.placement = "sequential_cpu_offload"
    /\ isMemoryOffload

\* C27: VAE slicing and tiling are enabled exactly when the mode is
\* LowMemDevice or LowMemOffloadModel
C27_TilingOnlyInLowMemModes ==
    Placed =>
        (pipeline.vae_tiling <=>
            hist.config.memory_mode \in {"LowMemDevice", "LowMemOffloadModel"})

\* C28: load, reload, generate and unload never fail because the working-set
\* trim inside trim_memory failed
C28_TrimNeverFatal == result.status # "TrimError"

\* C29: unload returns ok from every state (a live handle, no handle ever
\* loaded, called twice in a row), and afterwards there is no live handle and
\* the prompt cache is empty
C29_UnloadAlwaysOk ==
    /\ result.op = "unload" =>
           /\ result.status = "ok"
           /\ pipeline = NoPipeline
           /\ prompt_cache_key = NoKey
           /\ prompt_cache_value = NoValue
    /\ kandinsky.op = "unload" =>
           /\ kandinsky.status = "ok"
           /\ kandinsky.pipeline # "live"
           /\ kandinsky.prompt_cache_key = None

\* C30: whatever the interleaving of write and get_output, the lines written to
\* a buffer are, in write order, the lines already returned, the lines the
\* poller holds, and the lines still in the buffer: none is lost, none is
\* returned twice, and the order of a buffer is kept
C30_EveryLineReturnedOnce ==
    /\ logs.written.stderr = logs.returned.stderr \o logs.stderr_copy \o logs.stderr
    /\ logs.written.stdout = logs.returned.stdout \o logs.stdout
    /\ logs.pc = "idle" => logs.stderr_copy = << >>

\* two polls with writes between them: the first returned the first stderr
\* line alone, the last returned the second stderr line and then a stdout line
C30_Witness ==
    /\ logs.pc = "idle"
    /\ Len(logs.written.stderr) = 2
    /\ Len(logs.written.stdout) = 1
    /\ logs.returned = logs.written
    /\ logs.output = <<logs.written.stderr[2], logs.written.stdout[1]>>
    /\ logs.written.stderr[1] # logs.written.stderr[2]
    /\ logs.stderr = << >>
    /\ logs.stdout = << >>

\* C31: after a load or reload that completes, the adapters attached to the
\* live handle are exactly those of its configuration, in list order: nothing
\* attached under an earlier configuration is left, also on a reused denoiser
C31_AdaptersAreTheConfigurations ==
    (result.op \in {"load", "reload"} /\ result.status = "ok") =>
        /\ pipeline.unet.lora = hist.config.lora_adapters
        /\ pipeline.unet.active =
              {hist.config.lora_adapters[i] : i \in 1..Len(hist.config.lora_adapters)}

\* a reload kept the denoiser of a handle that carried other adapters
C31_Witness ==
    /\ result.op = "reload"
    /\ result.status = "ok"
    /\ pipeline.unet.id = hist.before.unet.id
    /\ pipeline.unet.id # 0
    /\ hist.before.unet.lora # << >>
    /\ hist.before.unet.lora # hist.config.lora_adapters
    /\ pipeline.unet.lora = hist.config.lora_adapters

\* C32: the sampler of a generate call has the handle's previous sampler
\* configuration with every option that is not None written over it, every
\* other key as it was; an unknown scheduler name fails the call with the
\* previous sampler still active
C32_SamplerIsConfigOverriddenByOptions ==
    /\ (result.op = "generate" /\ hist.reached) =>
          \A k \in ConfigKeys :
              pipeline.scheduler.config[k] =
                  IF k \in OptionFields /\ hist.options[k] # NoneVal
                  THEN hist.options[k]
                  ELSE hist.before.scheduler.config[k]
    /\ (result.op = "generate" /\ result.status = "UnknownScheduler") =>
          pipeline.scheduler = hist.before.scheduler

\* a second call left sigma_min, which it did not give, as the first call had
\* set it, and wrote its own beta_start over the first call's
C32_Witness ==
    /\ result.op = "generate"
    /\ result.status = "ok"
    /\ hist.reached
    /\ hist.options.sigma_min = NoneVal
    /\ hist.before.scheduler.config.sigma_min # DefaultSchedulerConfig.sigma_min
    /\ pipeline.scheduler.config.sigma_min = hist.before.scheduler.config.sigma_min
    /\ hist.options.beta_start # hist.before.scheduler.config.beta_start
    /\ pipeline.scheduler.config.beta_start = hist.options.beta_start

\* C33: every pair reported by Update satisfies
\* 0 <= overall_progress <= max_progress, in every pipeline's sequence of
\* Initialize and Update calls with downloaded <= total
C33_OverallWithinMax ==
    (tracker.last = "Update" /\ tracker.report # NoReport) =>
        /\ 0 <= tracker.report.overall
        /\ tracker.report.overall <= tracker.report.max
        /\ tracker.report.max = tracker.total_models * total_per_model

\* C34: every scheduler option the caller supplied reaches the sampler
\* construction as the constructed options object holds it (s_tmax 0 as
\* +infinity), whatever the sampler family: generate overwrites none
C34_OptionsReachSamplerUnchanged ==
    sched.sampler # DefaultScheduler =>
        \A f \in OptionFields :
            sched.first[f] # NoneVal => sched.sampler.config[f] = sched.first[f]

\* C35: after PipelineConfig normalization is_gguf is true exactly when one of
\* the declared paths (base model, model checkpoint, VAE checkpoint,
\* text-encoder checkpoint) ends with .gguf in any letter case, whatever
\* is_gguf value the caller gave
C35_IsGgufFromAnyDeclaredPath ==
    quant.op = "PipelineConfig" =>
        (quant.is_gguf <=>
            \E i \in DOMAIN quant.declared :
                /\ quant.declared[i] # NoPath
                /\ EndsWith(Lower(quant.declared[i]), ".gguf"))

\* C36: the embeddings a generate call hands to the generation loop are those
\* encode_prompt produces for the call's own prompt, negative prompt and
\* guidance-enabled flag: an embedding cached with guidance off is not used by
\* a call with guidance on, nor the reverse
C36_EmbeddingsOfOwnGuidanceFlag ==
    (result.op = "generate" /\ hist.reached) =>
        /\ prompt_cache_value # NoValue
        /\ prompt_cache_value[1] = hist.key[1]
        /\ prompt_cache_value[2] = hist.key[2]
        /\ prompt_cache_value[3] = hist.cfg

\* C37: a generateCancel that arrives only after the callback of the last
\* step has run does not cancel the call: the call returns its complete
\* output as a success, and the flag stays set until the next generate
C37_LateCancelDoesNotCancel ==
    (result.op = "generate" /\ hist.cancelLate /\ ~hist.cancelWindow) =>
        /\ pc \in {"post", "idle"}
        /\ cancel_event
        /\ call.cur = call.steps
        /\ pc = "idle" =>
              /\ result.status = "ok"
              /\ result.buffers = 1

\* C38: on reload every slot of the new handle that holds a sub-model which
\* existed before the call holds the sub-model of the same slot of the
\* previous handle, the audio autoencoder included
C38_ReusedSlotKeepsItsSubModel ==
    (ltx2.op = "reload" /\ ltx2.status = "ok") =>
        \A slot \in {"text_encoder", "transformer", "vae", "audio_vae"} :
            ltx2.pipeline[slot].id <= ltx2.beforeModels =>
                ltx2.pipeline[slot] = ltx2.before[slot]

\* C39: after any sequence of load and reload calls, failed control-net loads
\* included, the cached control-net model is the one loaded from the cached
\* path, the control-net of a handle just built is the one loaded from its
\* configuration's path, and a configuration without a control-net has none
C39_ControlNetCacheCorresponds ==
    /\ control_net_cache.id # 0 => control_net_cache.src = control_net_path
    /\ (result.op \in {"load", "reload"} /\ result.status = "ok") =>
          IF hist.config.control_net_path = None
          THEN pipeline.controlnet = NoModel
          ELSE pipeline.controlnet.src = hist.config.control_net_path

\* C40: after unload has returned no module-level state of the script refers
\* to a sub-model of the released handle, the control-net included, so a load
\* made afterwards builds its handle from objects it loads itself
C40_UnloadDropsEverySubModel ==
    /\ result.op = "unload" =>
          /\ pipeline = NoPipeline
          /\ control_net_cache = NoModel
    /\ (result.op = "load" /\ result.status = "ok" /\ ~IsLive(hist.before)) =>
          /\ \A slot \in SubModelSlots : pipeline[slot].id > hist.beforeModels
          /\ pipeline.controlnet.id # 0 => pipeline.controlnet.id > hist.beforeModels

====
